---- MODULE Spec2Model ----
(***************************************************************************)
(* Model of the log-capture subsystem of lettered/zssld-tools:             *)
(*   src/logger/log_file.go   FileLogger, the rotating file sink           *)
(*   src/logger/log_std.go    StdLogger, the standard-stream sink          *)
(*   src/unnamed/part_001     NullLogger, the discard sink                 *)
(*   src/logger/log.go        NewLogger, createLogger, CompositeLogger     *)
(*                                                                         *)
(* A file is a record [exists, data]; data is a sequence of bytes.  The    *)
(* disk maps a path to its files: index 0 is the active file <path>, index *)
(* i >= 1 is the backup <path>.i.  int64 is scaled down to IntBits bits,   *)
(* two's complement, so that the additions of the code wrap as they do in  *)
(* Go.                                                                     *)
(***************************************************************************)
EXTENDS Integers, Sequences, FiniteSets, TLC

VARIABLES sinks, disk, loggers, last, okSoFar, calls, fileLock, clLock

vars == <<sinks, disk, loggers, last, okSoFar, calls, fileLock, clLock>>

(***************************************************************************)
(* Bounds of the model.                                                    *)
(***************************************************************************)
\* longest payload handed to one Write
MaxWrite == 2
\* largest rotation threshold (maxSize) a sink is configured with
MaxThreshold == 2
\* largest retention count (backups) a sink is configured with
MaxBackups == 2
\* longest active file found on disk when a sink is constructed
MaxInitLen == 2
\* width of the scaled-down int64
IntBits == 5

\* the number of concurrent callers
MaxProcs == 2

\* the longest sequence of sinks AddLogger builds
MaxLoggers == 3

\* the longest destination list given to NewLogger
MaxDests == 2

\* the larger threshold of the read specification: a file found on disk
\* stays below it
ReadThreshold == MaxInitLen + 1

\* offsets and lengths of the reads: around the file, and the int64 extremes
MaxOff == MaxInitLen + 1

\* highest backup index the disk of the model can hold
MaxIdx == MaxBackups + 1

MaxInt64 == 2 ^ (IntBits - 1) - 1
\* make([]byte, n) panics beyond the allocator's limit (runtime maxAlloc)
MaxAlloc == 2 ^ (IntBits - 2)

Offsets == (-MaxOff..MaxOff) \cup {MaxInt64}

Lengths == (-1..MaxWrite) \cup {MaxInt64}

\* the arguments of a read: every pair that passes the sign check of the
\* call, and four that do not
BadArgs == {<<-1, 1>>, <<-1, -1>>, <<0, -1>>, <<1, -1>>}

ReadLogArgs ==
    {a \in Offsets \X Lengths :
        (a[1] < 0 /\ a[2] = 0) \/ (a[1] >= 0 /\ a[2] >= 0)} \cup BadArgs

ReadTailLogArgs ==
    {a \in Offsets \X Lengths : a[1] >= 0 /\ a[2] >= 0} \cup BadArgs

\* int64 arithmetic wraps
Wrap(x) == ((x + 2 ^ (IntBits - 1)) % (2 ^ IntBits)) - 2 ^ (IntBits - 1)

Min(a, b) == IF a < b THEN a ELSE b

\* the payload of length k: bytes 1, 2, ..., k
Iota(k) == [i \in 1..k |-> i]

Payloads == {Iota(k) : k \in 0..MaxWrite}

Paths == {"a.log", "b.log"}

SinkIds == 1..MaxDests

NoFile == [exists |-> FALSE, data |-> <<>>]

File(c) == [exists |-> TRUE, data |-> c]

NoFiles == [i \in 0..MaxIdx |-> NoFile]

(***************************************************************************)
(* Outcomes of one write on an open descriptor or stream: complete, or     *)
(* failed with no byte written (Write returns a non-nil error whenever     *)
(* n != len(p)).                                                           *)
(***************************************************************************)
IOChoice == {"ok", "fail"}

\* a mutant of WriteOutcome: a failed write reports no error
WriteOutcomeSwallow(p, io) ==
    [n |-> IF io = "ok" THEN Len(p) ELSE 0, err |-> "nil"]

\* os.File.Write(p) on an open file: everything written, or nothing and the
\* I/O error
WriteOutcome(p, io) ==
    IF io = "ok" THEN [n |-> Len(p), err |-> "nil"]
    ELSE [n |-> 0, err |-> "EIO"]

(***************************************************************************)
(* Sinks.  One record shape for every kind; the fields a kind does not     *)
(* have keep their zero value.                                             *)
(***************************************************************************)
NoSink ==
    [kind |-> "none", name |-> "", maxSize |-> 0, backups |-> 0,
     fileSize |-> 0, file |-> FALSE, emitter |-> "null", locker |-> "null"]

\* a mutant of openFile: the counter is not set from the size of the file
openFileNoSize(s, fs, trunc) ==
    IF trunc \/ ~fs[0].exists
    THEN [sink |-> [s EXCEPT !.file = TRUE],
          files |-> [fs EXCEPT ![0] = File(<<>>)]]
    ELSE [sink |-> [s EXCEPT !.file = TRUE], files |-> fs]

\* FileLogger.openFile(trunc) on the files of the sink's path
openFile(s, fs, trunc) ==
    IF trunc \/ ~fs[0].exists
    THEN [sink |-> [s EXCEPT !.file = TRUE],
          files |-> [fs EXCEPT ![0] = File(<<>>)]]
    ELSE [sink |-> [s EXCEPT !.fileSize = Len(fs[0].data), !.file = TRUE],
          files |-> fs]

\* NewFileLogger
NewFileLogger(name, maxSize, backups, emitter, locker, fs) ==
    openFile([kind |-> "file", name |-> name, maxSize |-> maxSize,
              backups |-> backups, fileSize |-> 0, file |-> FALSE,
              emitter |-> emitter, locker |-> locker], fs, FALSE)

\* os.Rename(src, dest) on the files of one path; an error is ignored
Rename(fs, src, dest) ==
    IF fs[src].exists
    THEN [fs EXCEPT ![dest] = fs[src], ![src] = NoFile]
    ELSE fs

\* the loop of FileLogger.backupFiles, from index i down to 1
RECURSIVE ShiftFrom(_, _)
ShiftFrom(fs, i) ==
    IF i <= 0 THEN fs
    ELSE ShiftFrom(IF fs[i].exists THEN Rename(fs, i, i + 1) ELSE fs, i - 1)

\* a mutant of ShiftStart: the shift starts one index too high
ShiftStartHigh(backups) == backups

\* first index of the loop of FileLogger.backupFiles
ShiftStart(backups) == backups - 1

\* a mutant of backupFiles: the active file is not renamed
backupFilesShiftOnly(s, fs) == ShiftFrom(fs, ShiftStart(s.backups))

\* FileLogger.backupFiles
backupFiles(s, fs) == Rename(ShiftFrom(fs, ShiftStart(s.backups)), 0, 1)

\* FileLogger.Close
FileClose(s) == [sink |-> [s EXCEPT !.file = FALSE], err |-> "nil"]

\* a mutant of RotateSize: the counter is never re-queried from the disk
RotateSizeNoStat(s, size1, fs) == size1

\* the value of the running counter that the rotation test of Write uses
RotateSize(s, size1, fs) ==
    IF size1 >= s.maxSize THEN Len(fs[0].data) ELSE size1

\* FileLogger.Write
FileWrite(s, fs, p, io) ==
    LET out == IF s.file THEN WriteOutcome(p, io)
               ELSE [n |-> 0, err |-> "ErrInvalid"]
        fs1 == IF s.file /\ fs[0].exists
               THEN [fs EXCEPT ![0].data = @ \o SubSeq(p, 1, out.n)]
               ELSE fs
    IN  IF out.err # "nil"
        THEN [sink |-> s, files |-> fs1, n |-> out.n, err |-> out.err,
              emit |-> <<>>, rotated |-> FALSE]
        ELSE
          LET size1 == s.fileSize + out.n
          IN  IF size1 >= s.maxSize /\ ~fs1[0].exists
              THEN [sink |-> [s EXCEPT !.fileSize = size1], files |-> fs1,
                    n |-> out.n, err |-> "ENOENT",
                    emit |-> <<p>>, rotated |-> FALSE]
              ELSE
                LET s2 == [s EXCEPT !.fileSize = RotateSize(s, size1, fs1)]
                IN  IF s2.fileSize >= s2.maxSize
                    THEN LET c == FileClose(s2).sink
                             o == openFile(c, backupFiles(c, fs1), TRUE)
                         IN  [sink |-> o.sink, files |-> o.files,
                              n |-> out.n, err |-> "nil",
                              emit |-> <<p>>, rotated |-> TRUE]
                    ELSE [sink |-> s2, files |-> fs1,
                          n |-> out.n, err |-> "nil",
                          emit |-> <<p>>, rotated |-> FALSE]

\* a mutant of FileClearCur: the newest backup is removed as well
FileClearCurDropFirst(s, fs) ==
    LET o == openFile(s, [fs EXCEPT ![1] = NoFile], TRUE)
    IN  [sink |-> o.sink, files |-> o.files, err |-> "nil"]

\* FileLogger.ClearCurLogFile
FileClearCur(s, fs) ==
    LET o == openFile(s, fs, TRUE)
    IN  [sink |-> o.sink, files |-> o.files, err |-> "nil"]

\* a mutant of RemoveFrom: a failed removal is reported but the loop goes on
RECURSIVE RemoveFromOn(_, _, _)
RemoveFromOn(fs, i, failAt) ==
    IF i <= 0 THEN [files |-> fs, err |-> "nil"]
    ELSE IF fs[i].exists
         THEN IF i = failAt
              THEN [files |-> RemoveFromOn(fs, i - 1, failAt).files,
                    err |-> "EIO"]
              ELSE RemoveFromOn([fs EXCEPT ![i] = NoFile], i - 1, failAt)
         ELSE RemoveFromOn(fs, i - 1, failAt)

\* the loop of FileLogger.ClearAllLogFile, from index i down to 1;
\* os.Remove fails at index failAt
RECURSIVE RemoveFrom(_, _, _)
RemoveFrom(fs, i, failAt) ==
    IF i <= 0 THEN [files |-> fs, err |-> "nil"]
    ELSE IF fs[i].exists
         THEN IF i = failAt
              THEN [files |-> fs, err |-> "EIO"]
              ELSE RemoveFrom([fs EXCEPT ![i] = NoFile], i - 1, failAt)
         ELSE RemoveFrom(fs, i - 1, failAt)

\* a mutant of FileClearAll: the loop starts one index too low
FileClearAllShort(s, fs, failAt) ==
    LET r == RemoveFrom(fs, s.backups - 1, failAt)
    IN  IF r.err # "nil"
        THEN [sink |-> s, files |-> r.files, err |-> r.err]
        ELSE LET o == openFile(s, r.files, TRUE)
             IN  [sink |-> o.sink, files |-> o.files, err |-> "nil"]

\* FileLogger.ClearAllLogFile
FileClearAll(s, fs, failAt) ==
    LET r == RemoveFrom(fs, s.backups, failAt)
    IN  IF r.err # "nil"
        THEN [sink |-> s, files |-> r.files, err |-> r.err]
        ELSE LET o == openFile(s, r.files, TRUE)
             IN  [sink |-> o.sink, files |-> o.files, err |-> "nil"]

\* os.File.ReadAt(b, off) with len(b) = n on content c: io.EOF when fewer
\* than n bytes are left, nothing read and no error when n = 0
ReadAt(c, n, off) ==
    IF off < 0 THEN [data |-> <<>>, err |-> "negative offset"]
    ELSE IF n = 0 THEN [data |-> <<>>, err |-> "nil"]
    ELSE LET avail == IF off < Len(c) THEN Len(c) - off ELSE 0
             m == Min(n, avail)
         IN  [data |-> SubSeq(c, off + 1, off + m),
              err |-> IF m < n THEN "EOF" ELSE "nil"]

\* b := make([]byte, length); n, err := f.ReadAt(b, offset) of ReadLog
ReadBuf(c, offset, length) ==
    IF length < 0 \/ length > MaxAlloc
    THEN [data |-> <<>>, err |-> "panic"]
    ELSE LET r == ReadAt(c, length, offset)
         IN  IF r.err # "nil" THEN [data |-> <<>>, err |-> "FAILED"]
             ELSE [data |-> r.data, err |-> "nil"]

\* a mutant of LenToEnd: one byte short
LenToEndShort(fileLen, offset) == Wrap(fileLen - offset - 1)

\* length = fileLen - offset
LenToEnd(fileLen, offset) == Wrap(fileLen - offset)

\* the clamp of ReadLog and ReadTailLog: offset+length > fileLen, in int64
Clamp(fileLen, offset, length) ==
    IF Wrap(offset + length) > fileLen THEN LenToEnd(fileLen, offset)
    ELSE length

\* a mutant of FileReadLog: only the first argument check is made
FileReadLogLoose(s, fs, offset, length) ==
    IF offset < 0 /\ length # 0 THEN [data |-> <<>>, err |-> "BAD_ARGUMENTS"]
    ELSE IF ~fs[0].exists \/ length < 0 THEN [data |-> <<>>, err |-> "FAILED"]
    ELSE ReadBuf(fs[0].data, 0, 0)

\* FileLogger.ReadLog
FileReadLog(s, fs, offset, length) ==
    IF offset < 0 /\ length # 0 THEN [data |-> <<>>, err |-> "BAD_ARGUMENTS"]
    ELSE IF offset >= 0 /\ length < 0
    THEN [data |-> <<>>, err |-> "BAD_ARGUMENTS"]
    ELSE IF ~fs[0].exists THEN [data |-> <<>>, err |-> "FAILED"]
    ELSE
      LET c == fs[0].data
          fileLen == Len(c)
      IN  IF offset < 0
          THEN LET o1 == Wrap(fileLen + offset)
                   o2 == IF o1 < 0 THEN 0 ELSE o1
               IN  ReadBuf(c, o2, LenToEnd(fileLen, o2))
          ELSE IF length = 0
          THEN IF offset > fileLen THEN [data |-> <<>>, err |-> "nil"]
               ELSE ReadBuf(c, offset, LenToEnd(fileLen, offset))
          ELSE IF offset >= fileLen THEN [data |-> <<>>, err |-> "nil"]
               ELSE ReadBuf(c, offset, Clamp(fileLen, offset, length))

\* a mutant of TailPastEnd: an offset equal to the file length is read
TailPastEndStrict(offset, fileLen) == offset > fileLen

\* the end-of-file test of ReadTailLog
TailPastEnd(offset, fileLen) == offset >= fileLen

\* a mutant of TailEndOffset: the offset is handed back as given
TailEndOffsetKept(offset, fileLen) == offset

\* the offset ReadTailLog returns at end-of-file
TailEndOffset(offset, fileLen) == fileLen

\* FileLogger.ReadTailLog
FileReadTailLog(s, fs, offset, length) ==
    IF offset < 0
    THEN [data |-> <<>>, newOffset |-> offset, eof |-> FALSE,
          err |-> "offset should not be less than 0"]
    ELSE IF length < 0
    THEN [data |-> <<>>, newOffset |-> offset, eof |-> FALSE,
          err |-> "length should be not be less than 0"]
    ELSE IF ~fs[0].exists
    THEN [data |-> <<>>, newOffset |-> 0, eof |-> FALSE, err |-> "ENOENT"]
    ELSE
      LET c == fs[0].data
          fileLen == Len(c)
      IN  IF TailPastEnd(offset, fileLen)
          THEN [data |-> <<>>, newOffset |-> TailEndOffset(offset, fileLen),
                eof |-> TRUE, err |-> "nil"]
          ELSE
            LET len == Clamp(fileLen, offset, length)
            IN  IF len < 0 \/ len > MaxAlloc
                THEN [data |-> <<>>, newOffset |-> offset, eof |-> FALSE,
                      err |-> "panic"]
                ELSE
                  LET r == ReadAt(c, len, offset)
                  IN  IF r.err # "nil"
                      THEN [data |-> <<>>, newOffset |-> offset,
                            eof |-> FALSE, err |-> r.err]
                      ELSE [data |-> r.data,
                            newOffset |-> Wrap(offset + Len(r.data)),
                            eof |-> FALSE, err |-> "nil"]

(***************************************************************************)
(* The record of the last call and its result.                             *)
(***************************************************************************)
NoCall ==
    [op |-> "none", target |-> 0, p |-> <<>>, io |-> "ok",
     offset |-> 0, length |-> 0,
     n |-> 0, err |-> "nil", data |-> <<>>, newOffset |-> 0, eof |-> FALSE,
     rotated |-> FALSE, pre |-> NoFiles, preSize |-> 0,
     delivered |-> <<>>, emitted |-> <<>>,
     follow |-> FALSE, prevEnd |-> FALSE,
     afterWrite |-> FALSE, wp |-> <<>>, wpre |-> <<>>, wrot |-> FALSE,
     preSinks |-> <<>>, preDisk |-> <<>>, preLoggers |-> <<>>,
     written |-> <<>>, payloads |-> <<>>]

\* the notifications of one sink's call that reach the caller's observer
Emitted(id, s, emit) ==
    IF s.emitter = "real"
    THEN [k \in 1..Len(emit) |-> [from |-> id, data |-> emit[k]]]
    ELSE <<>>

(***************************************************************************)
(* Concurrent callers.  calls[c] is the call the caller c is in and how    *)
(* far it got; fileLock is the holder of the lock injected into the file   *)
(* sink, clLock the holder of the dispatcher's mutex (0: free).  The       *)
(* specifications of single calls keep every caller idle.                  *)
(***************************************************************************)
Procs == 1..MaxProcs

\* a caller that is in no call; the fields after changed are the local
\* variables of the call: the payload or the arguments, the file a read has
\* open and the size its stat returned, the result, the active files that
\* stood between two Writes while the call ran, the position and the
\* sequence of a dispatcher's loop, the dispatcher called and the sink
\* handed to AddLogger or RemoveLogger
NoFd == [open |-> FALSE, idx |-> 0, data |-> <<>>]

NoResult == [data |-> <<>>, newOffset |-> 0, eof |-> FALSE, err |-> "nil"]

Idle ==
    [op |-> "none", via |-> "none", pc |-> "idle", changed |-> FALSE,
     p |-> <<>>, offset |-> 0, length |-> 0, fd |-> NoFd, fileLen |-> 0,
     res |-> NoResult, cands |-> {}, i |-> 0, snap |-> <<>>,
     on |-> 0, arg |-> 0]

conc == <<calls, fileLock, clLock>>

Quiet ==
    /\ calls = [c \in Procs |-> Idle]
    /\ fileLock = 0
    /\ clLock = 0

(***************************************************************************)
(* Specification Spec: one file sink, called directly.                     *)
(***************************************************************************)
Init ==
    /\ \E maxSize \in 0..MaxThreshold, backups \in 0..MaxBackups,
          f0 \in {NoFile} \cup {File(Iota(k)) : k \in 0..MaxWrite} :
         LET o == NewFileLogger("a.log", maxSize, backups, "real", "real",
                                [NoFiles EXCEPT ![0] = f0])
         IN  /\ sinks = [i \in SinkIds |-> IF i = 1 THEN o.sink ELSE NoSink]
             /\ disk = [q \in Paths |->
                          IF q = "a.log" THEN o.files ELSE NoFiles]
    /\ loggers = <<1>>
    /\ last = NoCall
    /\ okSoFar = TRUE
    /\ Quiet

Write ==
    \E p \in Payloads, io \in IOChoice :
      LET s == sinks[1]
          fs == disk[s.name]
          r == FileWrite(s, fs, p, io)
      IN  /\ sinks' = [sinks EXCEPT ![1] = r.sink]
          /\ disk' = [disk EXCEPT ![s.name] = r.files]
          /\ last' = [NoCall EXCEPT !.op = "Write", !.target = 1, !.p = p,
                        !.io = io, !.n = r.n, !.err = r.err,
                        !.rotated = r.rotated, !.pre = fs,
                        !.preSize = s.fileSize,
                        !.emitted = Emitted(1, s, r.emit)]
          /\ okSoFar' = (okSoFar /\ r.err = "nil")
          /\ UNCHANGED <<loggers, conc>>

ClearCurLogFile ==
    LET s == sinks[1]
        fs == disk[s.name]
        r == FileClearCur(s, fs)
    IN  /\ sinks' = [sinks EXCEPT ![1] = r.sink]
        /\ disk' = [disk EXCEPT ![s.name] = r.files]
        /\ last' = [NoCall EXCEPT !.op = "ClearCurLogFile", !.target = 1,
                      !.err = r.err, !.pre = fs, !.preSize = s.fileSize]
        /\ okSoFar' = (okSoFar /\ r.err = "nil")
        /\ UNCHANGED <<loggers, conc>>

ClearAllLogFile ==
    \E failAt \in 0..MaxIdx :
      LET s == sinks[1]
          fs == disk[s.name]
          r == FileClearAll(s, fs, failAt)
      IN  /\ failAt = 0 \/ (failAt <= s.backups /\ fs[failAt].exists)
          /\ sinks' = [sinks EXCEPT ![1] = r.sink]
          /\ disk' = [disk EXCEPT ![s.name] = r.files]
          /\ last' = [NoCall EXCEPT !.op = "ClearAllLogFile", !.target = 1,
                        !.err = r.err, !.pre = fs, !.preSize = s.fileSize]
          /\ okSoFar' = (okSoFar /\ r.err = "nil")
          /\ UNCHANGED <<loggers, conc>>

Close ==
    LET s == sinks[1]
        r == FileClose(s)
    IN  /\ sinks' = [sinks EXCEPT ![1] = r.sink]
        /\ last' = [NoCall EXCEPT !.op = "Close", !.target = 1,
                      !.err = r.err, !.pre = disk[s.name],
                      !.preSize = s.fileSize]
        /\ okSoFar' = FALSE
        /\ UNCHANGED <<disk, loggers, conc>>

Next == Write \/ ClearCurLogFile \/ ClearAllLogFile \/ Close

Spec == Init /\ [][Next]_vars

(***************************************************************************)
(* Specification SpecRead: one file sink on a file that may already hold   *)
(* content, read with ReadLog and ReadTailLog between successful appends.  *)
(***************************************************************************)
InitRead ==
    /\ \E maxSize \in {ReadThreshold},
          f0 \in {NoFile} \cup {File(Iota(k)) : k \in 0..MaxInitLen} :
         LET o == NewFileLogger("a.log", maxSize, 1, "real", "real",
                                [NoFiles EXCEPT ![0] = f0])
         IN  /\ sinks = [i \in SinkIds |-> IF i = 1 THEN o.sink ELSE NoSink]
             /\ disk = [q \in Paths |->
                          IF q = "a.log" THEN o.files ELSE NoFiles]
    /\ loggers = <<1>>
    /\ last = NoCall
    /\ okSoFar = TRUE
    /\ Quiet

ReadLog ==
    \E a \in ReadLogArgs :
      LET offset == a[1]
          length == a[2]
          s == sinks[1]
          fs == disk[s.name]
          r == FileReadLog(s, fs, offset, length)
          aw == last.op = "Write" /\ last.err = "nil"
                  /\ offset = 0 /\ length = 0
      IN  /\ last' = [NoCall EXCEPT !.op = "ReadLog", !.target = 1,
                        !.offset = offset, !.length = length,
                        !.data = r.data, !.err = r.err,
                        !.afterWrite = aw,
                        !.wp = IF aw THEN last.p ELSE <<>>,
                        !.wpre = IF aw THEN last.pre[0].data ELSE <<>>,
                        !.wrot = IF aw THEN last.rotated ELSE FALSE]
          /\ UNCHANGED <<sinks, disk, loggers, okSoFar, conc>>

ReadTailLog ==
    \E a \in ReadTailLogArgs :
      LET offset == a[1]
          length == a[2]
          s == sinks[1]
          fs == disk[s.name]
          r == FileReadTailLog(s, fs, offset, length)
          fl == last.op = "ReadTailLog" /\ last.err = "nil"
                  /\ offset = last.newOffset
      IN  /\ last' = [NoCall EXCEPT !.op = "ReadTailLog", !.target = 1,
                        !.offset = offset, !.length = length,
                        !.data = r.data, !.newOffset = r.newOffset,
                        !.eof = r.eof, !.err = r.err,
                        !.follow = fl,
                        !.prevEnd = fl /\ last.newOffset >= Len(fs[0].data)]
          /\ UNCHANGED <<sinks, disk, loggers, okSoFar, conc>>

\* a successful append
AppendOk ==
    /\ Write
    /\ last'.io = "ok"

NextRead == ReadLog \/ ReadTailLog \/ AppendOk

SpecRead == InitRead /\ [][NextRead]_vars

(***************************************************************************)
(* Claims about the rotating file sink, checked under Spec.                *)
(***************************************************************************)
\* the files and the configuration of the file sink
Post == disk["a.log"]

Cfg == sinks[1]

\* the active content right after the append of the last Write
Appended == last.pre[0].data \o last.p

\* C1: with maxSize > 0, after successful Write / ClearCurLogFile /
\* ClearAllLogFile calls only, a successful Write rotates if and only if the
\* true size of the active file after the append is >= maxSize; a rotating
\* Write leaves an empty active file and backup .1 holding the whole
\* pre-rotation content, a non-rotating Write leaves the appended content
\* in the active file and every backup as it was.
C1_RotationTrigger ==
    (last.op = "Write" /\ last.err = "nil" /\ okSoFar /\ Cfg.maxSize > 0) =>
        /\ last.rotated <=> (Len(Appended) >= Cfg.maxSize)
        /\ last.rotated => (Post[0] = File(<<>>) /\ Post[1] = File(Appended))
        /\ ~last.rotated =>
             /\ Post[0] = File(Appended)
             /\ \A i \in 1..MaxIdx : Post[i] = last.pre[i]

\* Scenario A scaled to threshold 2, retention 2: after writes of 2, 1 and
\* 2 bytes the third write has rotated, backup .2 holds the first payload
\* and backup .1 the second and third.
C1_Witness ==
    /\ last.op = "Write" /\ last.err = "nil" /\ okSoFar /\ last.rotated
    /\ Cfg.maxSize = 2 /\ Cfg.backups = 2
    /\ last.pre[0].data = <<1>> /\ last.p = <<1, 2>>
    /\ Post[0] = File(<<>>)
    /\ Post[1] = File(<<1, 1, 2>>)
    /\ Post[2] = File(<<1, 2>>)

\* C2: one rotation with retention count R moves every existing backup i,
\* 1 <= i <= R-1, to backup i+1 and the active file to backup 1; nothing
\* moves into an index above R, so the former content of backup R is gone.
C2_RotationShift ==
    (last.op = "Write" /\ last.rotated) =>
        /\ Post[1] = File(Appended)
        /\ \A i \in 1..(Cfg.backups - 1) :
             last.pre[i].exists => Post[i + 1] = last.pre[i]
        /\ \A j \in 2..MaxIdx :
             (j > Cfg.backups \/ ~last.pre[j - 1].exists) =>
                 Post[j] = last.pre[j]
        /\ \A j \in 1..MaxIdx :
             (j = Cfg.backups /\ last.pre[j].exists) =>
                 Post[j] = IF j = 1 THEN File(Appended) ELSE last.pre[j - 1]

\* a rotation with retention 2 that found both backups in place
C2_Witness ==
    /\ last.op = "Write" /\ last.rotated /\ Cfg.backups = 2
    /\ last.pre[1].exists /\ last.pre[2].exists
    /\ last.pre[1] # last.pre[2]
    /\ Post[2] = last.pre[1]
    /\ ~Post[3].exists

\* C3: for every configured retention count, starting with no backup on
\* disk, every existing backup file has an index in 1..retention.
C3_BackupIndexBound ==
    \A i \in 1..MaxIdx : Post[i].exists => i <= Cfg.backups

(***************************************************************************)
(* Claims about ReadLog and ReadTailLog, checked under SpecRead.           *)
(***************************************************************************)
\* the content of the active file (a read leaves the files as they are)
Content == Post[0].data

\* the bytes C[from..to) of a content
Slice(c, from, to) == SubSeq(c, from + 1, to)

\* the last call passed the sign check of ReadLog on an existing file
ReadLogValid ==
    /\ last.op = "ReadLog"
    /\ Post[0].exists
    /\ (last.offset < 0 /\ last.length = 0)
         \/ (last.offset >= 0 /\ last.length >= 0)

\* the last call passed the sign check of ReadTailLog on an existing file
ReadTailLogValid ==
    /\ last.op = "ReadTailLog"
    /\ Post[0].exists
    /\ last.offset >= 0
    /\ last.length >= 0

\* C4: for every content C of length L and every (offset, length) passing
\* the sign check, ReadLog returns with no error the last min(|offset|, L)
\* bytes when offset < 0, C[offset..L) when offset >= 0 and length = 0, and
\* C[offset..min(offset+length, L)) when offset >= 0 and length > 0.
C4_ReadLogResult ==
    ReadLogValid =>
        /\ last.err = "nil"
        /\ last.data =
             IF last.offset < 0
             THEN Slice(Content, Len(Content) - Min(-last.offset, Len(Content)),
                        Len(Content))
             ELSE IF last.length = 0
             THEN Slice(Content, last.offset, Len(Content))
             ELSE Slice(Content, last.offset,
                        Min(last.offset + last.length, Len(Content)))

\* C5 as stated: at an offset at or beyond the file length ReadTailLog
\* returns empty content, the offset unchanged and equal to the file length,
\* reached-end true and no error.
C5_OffsetUnchanged ==
    (ReadTailLogValid /\ last.offset >= Len(Content)) =>
        /\ last.data = <<>>
        /\ last.newOffset = last.offset
        /\ last.newOffset = Len(Content)
        /\ last.eof
        /\ last.err = "nil"

\* C5 amended: at an offset at or beyond the file length ReadTailLog returns
\* empty content, the file length as the new offset (the given offset only
\* when that is the file length), reached-end true and no error.
C5_TailAtEnd ==
    (ReadTailLogValid /\ last.offset >= Len(Content)) =>
        /\ last.data = <<>>
        /\ last.newOffset = Len(Content)
        /\ (last.newOffset = last.offset) <=> (last.offset = Len(Content))
        /\ last.eof
        /\ last.err = "nil"

\* a tail read from beyond the end of a non-empty file
C5_Witness ==
    /\ ReadTailLogValid
    /\ Len(Content) > 0
    /\ last.offset > Len(Content)
    /\ last.length > 0
    /\ last.newOffset = Len(Content)
    /\ last.eof

\* C6 as stated: ReadTailLog called with the offset an earlier ReadTailLog
\* returned, with no write in between, returns empty content and
\* reached-end true.
C6_PollAlwaysEnd ==
    (last.op = "ReadTailLog" /\ last.follow /\ last.err = "nil") =>
        /\ last.data = <<>>
        /\ last.eof

\* C6 amended: ReadTailLog called with the offset an earlier successful
\* ReadTailLog returned, with no write in between, returns empty content,
\* the same offset and reached-end true when that offset is at or beyond
\* the file length (and so again on every repetition); when that offset is
\* below the file length a successful call returns the bytes that follow
\* it and reached-end false.
C6_PollAtEnd ==
    (last.op = "ReadTailLog" /\ last.follow) =>
        /\ (last.prevEnd /\ last.length >= 0) =>
             /\ last.data = <<>>
             /\ last.eof
             /\ last.err = "nil"
             /\ last.newOffset = last.offset
        /\ (~last.prevEnd /\ last.err = "nil") =>
             /\ ~last.eof
             /\ last.data = Slice(Content, last.offset, last.newOffset)

\* a poll at the end of a non-empty file, repeating a call that itself
\* reported reached-end
C6_Witness ==
    /\ last.op = "ReadTailLog" /\ last.follow /\ last.prevEnd
    /\ Len(Content) > 0
    /\ last.offset = Len(Content)
    /\ last.length > 0
    /\ last.data = <<>>
    /\ last.eof

\* C7: for 0 <= offset < L and length >= 0 ReadTailLog returns the
\* min(length, L - offset) bytes from offset, the new offset
\* offset + bytes returned, reached-end false and no error.
C7_TailRead ==
    (ReadTailLogValid /\ last.offset < Len(Content)) =>
        /\ last.err = "nil"
        /\ last.data =
             Slice(Content, last.offset,
                   last.offset + Min(last.length, Len(Content) - last.offset))
        /\ last.newOffset = last.offset + Len(last.data)
        /\ ~last.eof

\* C8 as stated: a Write of N bytes, N below the rotation threshold,
\* followed by ReadLog(0, 0) returns exactly those N bytes.
C8_RoundTripExact ==
    (last.op = "ReadLog" /\ last.afterWrite /\ Len(last.wp) < Cfg.maxSize) =>
        /\ last.err = "nil"
        /\ last.data = last.wp

\* C8 amended: a successful Write followed by ReadLog(0, 0) returns the
\* content the active file held before the Write followed by the written
\* bytes when the Write did not rotate, and empty content when it did; it
\* returns exactly the written bytes when the file was empty before the
\* Write and their number is below the rotation threshold.
C8_RoundTrip ==
    (last.op = "ReadLog" /\ last.afterWrite) =>
        /\ last.err = "nil"
        /\ ~last.wrot => last.data = last.wpre \o last.wp
        /\ last.wrot => last.data = <<>>
        /\ (last.wpre = <<>> /\ Len(last.wp) < Cfg.maxSize) =>
             last.data = last.wp

\* a Write onto a non-empty file that did not rotate, read back
C8_Witness ==
    /\ last.op = "ReadLog" /\ last.afterWrite /\ ~last.wrot
    /\ last.wpre # <<>>
    /\ last.wp # <<>>
    /\ last.data = last.wpre \o last.wp

(***************************************************************************)
(* The dispatcher: NewLogger, the standard-stream sink, the discarding     *)
(* sink and CompositeLogger.Write.                                         *)
(***************************************************************************)
\* the destination names of createLogger (NewSysLogger, the sink behind
\* "syslog", is not part of these sources)
Dests == Paths \cup {"/dev/stdout", "/dev/stderr", "/dev/null", ""}

\* the destination lists splitLogFile yields; two entries with the same path
\* would be two handles on one file and are left out
DestLists ==
    {l \in UNION {[1..k -> Dests] : k \in 1..MaxDests} :
        \A i, j \in DOMAIN l : (i # j /\ l[i] \in Paths) => l[i] # l[j]}

\* NewStdoutLogger, NewStderrLogger
NewStdLogger(writer, emitter) ==
    [NoSink EXCEPT !.kind = "std", !.name = writer, !.emitter = emitter]

\* NewNullLogger
NewNullLogger(emitter) ==
    [NoSink EXCEPT !.kind = "null", !.emitter = emitter]

\* createLogger on the disk d
createLogger(logFile, locker, maxBytes, backups, emitter, d) ==
    IF logFile = "/dev/stdout"
    THEN [sink |-> NewStdLogger("stdout", emitter), disk |-> d]
    ELSE IF logFile = "/dev/stderr"
    THEN [sink |-> NewStdLogger("stderr", emitter), disk |-> d]
    ELSE IF logFile = "/dev/null"
    THEN [sink |-> NewNullLogger(emitter), disk |-> d]
    ELSE IF logFile # ""
    THEN LET o == NewFileLogger(logFile, maxBytes, backups, emitter, locker,
                                d[logFile])
         IN  [sink |-> o.sink, disk |-> [d EXCEPT ![logFile] = o.files]]
    ELSE [sink |-> NewNullLogger(emitter), disk |-> d]

\* a mutant of EntryEmitter: every entry is built with the caller's observer
EntryEmitterAll(i, emitter) == emitter

\* the observer NewLogger gives to entry i (1-based)
EntryEmitter(i, emitter) == IF i = 1 THEN emitter ELSE "null"

\* the lock NewLogger gives to entry i (1-based)
EntryLocker(i, locker) == IF i = 1 THEN locker ELSE "null"

\* the loop of NewLogger from entry i on
RECURSIVE BuildLoggers(_, _, _, _, _)
BuildLoggers(files, i, arg, ss, d) ==
    IF i > Len(files) THEN [sinks |-> ss, disk |-> d]
    ELSE LET o == createLogger(files[i], EntryLocker(i, arg.locker),
                               arg.maxBytes, arg.backups,
                               EntryEmitter(i, arg.emitter), d)
         IN  BuildLoggers(files, i + 1, arg, [ss EXCEPT ![i] = o.sink],
                          o.disk)

\* NewLogger on the split destination list files; entry i becomes sink i
NewLogger(files, locker, maxBytes, backups, emitter, d) ==
    LET o == BuildLoggers(files, 1,
                 [locker |-> locker, maxBytes |-> maxBytes,
                  backups |-> backups, emitter |-> emitter],
                 [i \in SinkIds |-> NoSink], d)
    IN  [sinks |-> o.sinks, disk |-> o.disk,
         loggers |-> [i \in 1..Len(files) |-> i]]

\* a mutant of StdWrite: the observer is notified on success too
StdWriteNotifyAll(s, p, io) ==
    LET out == WriteOutcome(p, io)
    IN  [sink |-> s, n |-> out.n, err |-> out.err, emit |-> <<p>>]

\* StdLogger.Write
StdWrite(s, p, io) ==
    LET out == WriteOutcome(p, io)
    IN  [sink |-> s, n |-> out.n, err |-> out.err,
         emit |-> IF out.err # "nil" THEN <<p>> ELSE <<>>]

\* NullLogger.Write
NullWrite(s, p) ==
    [sink |-> s, n |-> Len(p), err |-> "nil", emit |-> <<p>>]

\* Logger.Write of the sink s on the disk d
SinkWrite(s, d, p, io) ==
    IF s.kind = "file"
    THEN LET r == FileWrite(s, d[s.name], p, io)
         IN  [sink |-> r.sink, disk |-> [d EXCEPT ![s.name] = r.files],
              n |-> r.n, err |-> r.err, emit |-> r.emit]
    ELSE IF s.kind = "std"
    THEN LET r == StdWrite(s, p, io)
         IN  [sink |-> r.sink, disk |-> d, n |-> r.n, err |-> r.err,
              emit |-> r.emit]
    ELSE LET r == NullWrite(s, p)
         IN  [sink |-> r.sink, disk |-> d, n |-> r.n, err |-> r.err,
              emit |-> r.emit]

\* a mutant of IsPrimary: every sink's result overwrites the returned pair
IsPrimaryAny(i) == TRUE

\* the test i == 0 of CompositeLogger.Write (1-based here)
IsPrimary(i) == i = 1

\* the loop of CompositeLogger.Write from position i on; acc holds the named
\* results n and err, the calls made and the notifications that reached
\* the caller's observer
RECURSIVE WriteLoop(_, _, _, _, _, _, _)
WriteLoop(ls, i, ss, d, p, ios, acc) ==
    IF i > Len(ls)
    THEN [sinks |-> ss, disk |-> d, n |-> acc.n, err |-> acc.err,
          delivered |-> acc.delivered, emitted |-> acc.emitted]
    ELSE LET id == ls[i]
             r == SinkWrite(ss[id], d, p, ios[i])
         IN  WriteLoop(ls, i + 1, [ss EXCEPT ![id] = r.sink], r.disk, p, ios,
                 [n |-> IF IsPrimary(i) THEN r.n ELSE acc.n,
                  err |-> IF IsPrimary(i) THEN r.err ELSE acc.err,
                  delivered |->
                      Append(acc.delivered,
                             [id |-> id, p |-> p, io |-> ios[i],
                              open |-> ss[id].file,
                              n |-> r.n, err |-> r.err]),
                  emitted |-> acc.emitted \o Emitted(id, ss[id], r.emit)])

\* CompositeLogger.Write
CompositeWriteResult(ls, ss, d, p, ios) ==
    WriteLoop(ls, 1, ss, d, p, ios,
              [n |-> 0, err |-> "nil", delivered |-> <<>>, emitted |-> <<>>])

(***************************************************************************)
(* Specification SpecC: a dispatcher built by NewLogger on a fresh disk,   *)
(* written through CompositeLogger.Write.                                  *)
(***************************************************************************)
InitC ==
    /\ \E files \in DestLists :
         LET o == NewLogger(files, "real", 1, 1, "real",
                            [q \in Paths |-> NoFiles])
         IN  /\ sinks = o.sinks
             /\ disk = o.disk
             /\ loggers = o.loggers
    /\ last = NoCall
    /\ okSoFar = TRUE
    /\ Quiet

\* the byte strings handed to the dispatcher: none and the longest
FanPayloads == {<<>>, Iota(MaxWrite)}

\* the discarding sink does no I/O, so none of its calls can fail
CompositeWrite ==
    \E p \in FanPayloads, ios \in [1..Len(loggers) -> IOChoice] :
      LET r == CompositeWriteResult(loggers, sinks, disk, p, ios)
      IN  /\ \A i \in 1..Len(loggers) :
                sinks[loggers[i]].kind = "null" => ios[i] = "ok"
          /\ sinks' = r.sinks
          /\ disk' = r.disk
          /\ last' = [NoCall EXCEPT !.op = "CompositeWrite", !.p = p,
                        !.n = r.n, !.err = r.err,
                        !.delivered = r.delivered, !.emitted = r.emitted,
                        !.preSinks = sinks, !.preDisk = disk]
          /\ okSoFar' = (okSoFar /\ r.err = "nil")
          /\ UNCHANGED <<loggers, conc>>

NextC == CompositeWrite

SpecC == InitC /\ [][NextC]_vars

(***************************************************************************)
(* Claims about the dispatcher, checked under SpecC.                       *)
(***************************************************************************)
\* what the sink at position i of the sequence does on its own with the
\* bytes of the last call, from the state it was in before the call
Alone(i) ==
    SinkWrite(last.preSinks[loggers[i]], last.preDisk, last.p,
              last.delivered[i].io)

\* the append of the last call to the primary file went through
PrimaryAppended ==
    /\ last.delivered[1].open
    /\ last.delivered[1].io = "ok"

\* C9: Write hands the bytes to every sink in sequence order, whatever the
\* outcome of the sinks before it, and returns exactly the (bytes written,
\* error) pair of the sink at index 0; the outcomes of the other sinks do
\* not change the returned pair.
C9_FanOutResult ==
    last.op = "CompositeWrite" =>
        /\ Len(last.delivered) = Len(loggers)
        /\ \A i \in 1..Len(loggers) :
             /\ last.delivered[i].id = loggers[i]
             /\ last.delivered[i].p = last.p
             /\ last.delivered[i].n = Alone(i).n
             /\ last.delivered[i].err = Alone(i).err
             /\ sinks[loggers[i]] = Alone(i).sink
             /\ sinks[loggers[i]].kind = "file" =>
                  disk[sinks[loggers[i]].name] =
                      Alone(i).disk[sinks[loggers[i]].name]
        /\ last.n = Alone(1).n
        /\ last.err = Alone(1).err

\* Scenario D: the primary file sink takes the bytes, the secondary sink
\* fails, the call reports the primary's success
C9_Witness ==
    /\ last.op = "CompositeWrite"
    /\ Len(loggers) = 2
    /\ sinks[loggers[1]].kind = "file"
    /\ last.p # <<>>
    /\ last.delivered[1].err = "nil"
    /\ last.delivered[2].err # "nil"
    /\ last.n = Len(last.p)
    /\ last.err = "nil"

\* C10: on a dispatcher built by NewLogger with a file path as first entry,
\* a Write whose append to the primary file succeeds delivers exactly one
\* notification, carrying the written bytes, to the caller's observer, and
\* a Write whose append fails delivers none; the sinks of the later entries
\* never notify the caller's observer, whatever their kind and outcome.
C10_PrimaryNotifies ==
    (last.op = "CompositeWrite" /\ sinks[loggers[1]].kind = "file") =>
        last.emitted =
            IF PrimaryAppended
            THEN <<[from |-> loggers[1], data |-> last.p]>>
            ELSE <<>>

\* a Write that reached the primary file while a standard-stream sink of a
\* later entry failed, which makes that sink notify its own observer
C10_Witness ==
    /\ last.op = "CompositeWrite"
    /\ Len(loggers) = 2
    /\ sinks[loggers[1]].kind = "file"
    /\ sinks[loggers[2]].kind = "std"
    /\ PrimaryAppended
    /\ last.delivered[2].err # "nil"
    /\ last.p # <<>>
    /\ last.emitted = <<[from |-> loggers[1], data |-> last.p]>>

(***************************************************************************)
(* Claims about failures and clearing of the file sink, checked under Spec.*)
(***************************************************************************)
\* the append of the last Write failed: the I/O failed, or the sink had no
\* open handle (Write neither opens nor closes a handle unless it rotates)
AppendFailed ==
    /\ last.op = "Write"
    /\ (last.io = "fail" \/ ~Cfg.file)

\* C11: when the append to the active file fails, Write returns the
\* underlying I/O error, does not notify the observer, leaves the running
\* size counter unchanged and does not rotate: every backup is as it was.
C11_WriteFailure ==
    AppendFailed =>
        /\ last.err = IF Cfg.file THEN "EIO" ELSE "ErrInvalid"
        /\ last.n = 0
        /\ last.emitted = <<>>
        /\ Cfg.fileSize = last.preSize
        /\ ~last.rotated
        /\ \A i \in 1..MaxIdx : Post[i] = last.pre[i]

\* a failed append of a payload that would have rotated the file
C11_Witness ==
    /\ AppendFailed
    /\ Cfg.file
    /\ Cfg.maxSize > 0
    /\ Len(Appended) >= Cfg.maxSize
    /\ last.pre[0].data # <<>>
    /\ last.err = "EIO"
    /\ Post = last.pre

\* C12: ClearAllLogFile without I/O failure removes every backup with index
\* 1..R (R the retention count), leaves an empty active file, and a second
\* ClearAllLogFile right after it succeeds and leaves the same state.
C12_FullClear ==
    (last.op = "ClearAllLogFile" /\ last.err = "nil") =>
        /\ \A i \in 1..Cfg.backups : ~Post[i].exists
        /\ Post[0] = File(<<>>)
        /\ Cfg.file
        /\ FileClearAll(Cfg, Post, 0) =
               [sink |-> Cfg, files |-> Post, err |-> "nil"]

\* Scenario E scaled to retention 2: both backups were present, none is left
C12_Witness ==
    /\ last.op = "ClearAllLogFile" /\ last.err = "nil"
    /\ Cfg.backups = 2
    /\ last.pre[1].exists /\ last.pre[2].exists
    /\ last.pre[0].data # <<>>
    /\ ~Post[1].exists /\ ~Post[2].exists
    /\ Post[0] = File(<<>>)

\* C13: when the removal of a backup fails, ClearAllLogFile returns that
\* I/O error and stops there: the backups above the failing index (up to
\* the retention count) are gone, the failing backup and every backup
\* below it are as they were, and the active file and the sink are as they
\* were.
C13_ClearFailure ==
    (last.op = "ClearAllLogFile" /\ last.err # "nil") =>
        /\ last.err = "EIO"
        /\ \E k \in 1..Cfg.backups :
             /\ last.pre[k].exists
             /\ \A i \in 0..k : Post[i] = last.pre[i]
             /\ \A i \in (k + 1)..Cfg.backups : ~Post[i].exists
        /\ Cfg.fileSize = last.preSize

\* the removal of backup 2 failed while backup 1 and a non-empty active
\* file were in place
C13_Witness ==
    /\ last.op = "ClearAllLogFile" /\ last.err = "EIO"
    /\ Cfg.backups = 2
    /\ last.pre[2].exists /\ last.pre[1].exists
    /\ last.pre[0].data # <<>>
    /\ Post = last.pre

\* C14: ClearCurLogFile leaves the active file empty and every backup as it
\* was; a successful Write right after it appends to the emptied file, and
\* rotates if and only if the number of bytes written, the true size of
\* the file, reaches the threshold.
C14_ClearCurFrame ==
    [][/\ last'.op = "ClearCurLogFile" =>
            /\ last'.err = "nil"
            /\ disk'["a.log"][0] = File(<<>>)
            /\ \A i \in 1..MaxIdx : disk'["a.log"][i] = disk["a.log"][i]
       /\ (last.op = "ClearCurLogFile" /\ last'.op = "Write"
              /\ last'.err = "nil") =>
            /\ last'.rotated <=> (Len(last'.p) >= Cfg.maxSize)
            /\ last'.rotated =>
                 /\ disk'["a.log"][0] = File(<<>>)
                 /\ disk'["a.log"][1] = File(last'.p)
            /\ ~last'.rotated =>
                 /\ disk'["a.log"][0] = File(last'.p)
                 /\ \A i \in 1..MaxIdx :
                      disk'["a.log"][i] = disk["a.log"][i]]_vars

\* ClearCurLogFile emptied a non-empty active file next to two backups
C14_Witness ==
    /\ last.op = "ClearCurLogFile"
    /\ last.pre[0].data # <<>>
    /\ last.pre[1].exists /\ last.pre[2].exists
    /\ Post[0] = File(<<>>)
    /\ Post[1] = last.pre[1] /\ Post[2] = last.pre[2]

(***************************************************************************)
(* Claims about the argument check of ReadLog, checked under SpecRead.     *)
(***************************************************************************)
\* C15: ReadLog fails with the invalid-arguments error if and only if
\* (offset < 0 and length # 0) or (offset >= 0 and length < 0), whatever
\* the state of the file; every other pair passes the check.
C15_ReadLogArguments ==
    last.op = "ReadLog" =>
        (last.err = "BAD_ARGUMENTS" <=>
            \/ (last.offset < 0 /\ last.length # 0)
            \/ (last.offset >= 0 /\ last.length < 0))

\* a negative length at a valid offset of a non-empty file is turned down
C15_Witness ==
    /\ last.op = "ReadLog"
    /\ Content # <<>>
    /\ last.offset >= 0 /\ last.offset < Len(Content)
    /\ last.length < 0
    /\ last.err = "BAD_ARGUMENTS"
    /\ last.data = <<>>

(***************************************************************************)
(* The dispatcher's membership and the calls it hands to the primary sink. *)
(***************************************************************************)
\* Logger.ReadLog of the sink s: FileLogger.ReadLog, or NullLogger.ReadLog,
\* which StdLogger inherits
SinkReadLog(s, d, offset, length) ==
    IF s.kind = "file" THEN FileReadLog(s, d[s.name], offset, length)
    ELSE [data |-> <<>>, err |-> "NO_FILE"]

\* Logger.ReadTailLog of the sink s
SinkReadTailLog(s, d, offset, length) ==
    IF s.kind = "file" THEN FileReadTailLog(s, d[s.name], offset, length)
    ELSE [data |-> <<>>, newOffset |-> 0, eof |-> FALSE, err |-> "NO_FILE"]

\* Logger.ClearCurLogFile of the sink s
SinkClearCur(s, d) ==
    IF s.kind = "file"
    THEN LET r == FileClearCur(s, d[s.name])
         IN  [sink |-> r.sink, disk |-> [d EXCEPT ![s.name] = r.files],
              err |-> r.err]
    ELSE [sink |-> s, disk |-> d, err |-> "No log"]

\* Logger.ClearAllLogFile of the sink s
SinkClearAll(s, d, failAt) ==
    IF s.kind = "file"
    THEN LET r == FileClearAll(s, d[s.name], failAt)
         IN  [sink |-> r.sink, disk |-> [d EXCEPT ![s.name] = r.files],
              err |-> r.err]
    ELSE [sink |-> s, disk |-> d, err |-> "NO_FILE"]

\* a mutant of Primary: the last sink of the sequence serves the call
PrimaryLast(ls) == ls[Len(ls)]

\* cl.loggers[0]
Primary(ls) == ls[1]

\* CompositeLogger.AddLogger
AddLoggerResult(ls, id) == Append(ls, id)

\* a mutant of RemoveLoggerFrom: every occurrence is removed
RECURSIVE RemoveEvery(_, _, _)
RemoveEvery(ls, i, id) ==
    IF i > Len(ls) THEN <<>>
    ELSE (IF ls[i] = id THEN <<>> ELSE <<ls[i]>>) \o RemoveEvery(ls, i + 1, id)

\* the loop of CompositeLogger.RemoveLogger from position i on
RECURSIVE RemoveLoggerFrom(_, _, _)
RemoveLoggerFrom(ls, i, id) ==
    IF i > Len(ls) THEN ls
    ELSE IF ls[i] = id
    THEN SubSeq(ls, 1, i - 1) \o SubSeq(ls, i + 1, Len(ls))
    ELSE RemoveLoggerFrom(ls, i + 1, id)

\* CompositeLogger.RemoveLogger
RemoveLoggerResult(ls, id) == RemoveLoggerFrom(ls, 1, id)

(***************************************************************************)
(* Specification SpecD: a dispatcher built by NewLogger from two           *)
(* destinations on a fresh disk; sinks are added and removed, bytes are    *)
(* written, and the reads and clears go to the primary sink.               *)
(***************************************************************************)
\* the two-entry destination lists: a path, a standard stream or the
\* discarding device in either place
MemberLists ==
    {l \in [1..2 -> Paths \cup {"/dev/stdout", "/dev/null"}] : l[1] # l[2]}

\* the (offset, length) pairs handed through the dispatcher: the head of
\* the file, and a pair that fails the sign check
DelegArgs == {<<0, MaxWrite>>, <<0, -1>>}

InitD ==
    /\ \E files \in MemberLists :
         LET o == NewLogger(files, "real", MaxWrite + 1, 1, "real",
                            [q \in Paths |-> NoFiles])
         IN  /\ sinks = o.sinks
             /\ disk = o.disk
             /\ loggers = o.loggers
    /\ last = NoCall
    /\ okSoFar = TRUE
    /\ Quiet

\* CompositeLogger.Write with no I/O failure
FanWrite ==
    \E p \in FanPayloads :
      LET r == CompositeWriteResult(loggers, sinks, disk, p,
                                    [i \in 1..Len(loggers) |-> "ok"])
      IN  /\ sinks' = r.sinks
          /\ disk' = r.disk
          /\ last' = [NoCall EXCEPT !.op = "CompositeWrite", !.p = p,
                        !.n = r.n, !.err = r.err,
                        !.preSinks = sinks, !.preDisk = disk,
                        !.preLoggers = loggers]
          /\ UNCHANGED <<loggers, okSoFar, conc>>

\* CompositeLogger.ReadLog; cl.loggers[0] of an empty sequence panics
CompositeReadLog ==
    \E a \in DelegArgs :
      LET r == IF Len(loggers) = 0 THEN [data |-> <<>>, err |-> "panic"]
               ELSE SinkReadLog(sinks[Primary(loggers)], disk, a[1], a[2])
      IN  /\ last' = [NoCall EXCEPT !.op = "CompositeReadLog",
                        !.offset = a[1], !.length = a[2],
                        !.data = r.data, !.err = r.err,
                        !.preSinks = sinks, !.preDisk = disk,
                        !.preLoggers = loggers]
          /\ UNCHANGED <<sinks, disk, loggers, okSoFar, conc>>

\* CompositeLogger.ReadTailLog
CompositeReadTailLog ==
    \E a \in DelegArgs :
      LET r == IF Len(loggers) = 0
               THEN [data |-> <<>>, newOffset |-> 0, eof |-> FALSE,
                     err |-> "panic"]
               ELSE SinkReadTailLog(sinks[Primary(loggers)], disk,
                                    a[1], a[2])
      IN  /\ last' = [NoCall EXCEPT !.op = "CompositeReadTailLog",
                        !.offset = a[1], !.length = a[2],
                        !.data = r.data, !.newOffset = r.newOffset,
                        !.eof = r.eof, !.err = r.err,
                        !.preSinks = sinks, !.preDisk = disk,
                        !.preLoggers = loggers]
          /\ UNCHANGED <<sinks, disk, loggers, okSoFar, conc>>

\* CompositeLogger.ClearCurLogFile
CompositeClearCur ==
    LET id == Primary(loggers)
        r == IF Len(loggers) = 0
             THEN [sink |-> NoSink, disk |-> disk, err |-> "panic"]
             ELSE SinkClearCur(sinks[id], disk)
    IN  /\ sinks' = IF Len(loggers) = 0 THEN sinks
                    ELSE [sinks EXCEPT ![id] = r.sink]
        /\ disk' = r.disk
        /\ last' = [NoCall EXCEPT !.op = "CompositeClearCur",
                      !.err = r.err,
                      !.preSinks = sinks, !.preDisk = disk,
                      !.preLoggers = loggers]
        /\ UNCHANGED <<loggers, okSoFar, conc>>

\* CompositeLogger.ClearAllLogFile; os.Remove may fail on the backup of the
\* primary file
CompositeClearAll ==
    \E failAt \in 0..1 :
      LET id == Primary(loggers)
          r == IF Len(loggers) = 0
               THEN [sink |-> NoSink, disk |-> disk, err |-> "panic"]
               ELSE SinkClearAll(sinks[id], disk, failAt)
      IN  /\ failAt = 0
             \/ /\ Len(loggers) > 0
                /\ sinks[id].kind = "file"
                /\ disk[sinks[id].name][failAt].exists
          /\ sinks' = IF Len(loggers) = 0 THEN sinks
                      ELSE [sinks EXCEPT ![id] = r.sink]
          /\ disk' = r.disk
          /\ last' = [NoCall EXCEPT !.op = "CompositeClearAll",
                        !.err = r.err,
                        !.preSinks = sinks, !.preDisk = disk,
                        !.preLoggers = loggers]
          /\ UNCHANGED <<loggers, okSoFar, conc>>

\* CompositeLogger.AddLogger with a sink that exists, member or not
AddLogger ==
    \E id \in SinkIds :
      /\ sinks[id].kind # "none"
      /\ Len(loggers) < MaxLoggers
      /\ loggers' = AddLoggerResult(loggers, id)
      /\ last' = [NoCall EXCEPT !.op = "AddLogger", !.target = id,
                    !.preLoggers = loggers]
      /\ UNCHANGED <<sinks, disk, okSoFar, conc>>

\* CompositeLogger.RemoveLogger with a sink that exists, member or not
RemoveLogger ==
    \E id \in SinkIds :
      /\ sinks[id].kind # "none"
      /\ loggers' = RemoveLoggerResult(loggers, id)
      /\ last' = [NoCall EXCEPT !.op = "RemoveLogger", !.target = id,
                    !.preLoggers = loggers]
      /\ UNCHANGED <<sinks, disk, okSoFar, conc>>

NextD ==
    \/ FanWrite
    \/ CompositeReadLog
    \/ CompositeReadTailLog
    \/ CompositeClearCur
    \/ CompositeClearAll
    \/ AddLogger
    \/ RemoveLogger

SpecD == InitD /\ [][NextD]_vars

(***************************************************************************)
(* Claims about delegation and membership, checked under SpecD.            *)
(***************************************************************************)
\* the sink at index 0 as it was before the last call
PrimarySink == last.preSinks[loggers[1]]

\* every sink but the one at index 0, and every path but its own, is as it
\* was before the last call
OthersUntouched ==
    /\ \A id \in SinkIds : id # loggers[1] => sinks[id] = last.preSinks[id]
    /\ \A q \in Paths :
         (PrimarySink.kind # "file" \/ q # PrimarySink.name) =>
             disk[q] = last.preDisk[q]

\* C16: on a dispatcher with a sink at index 0, ReadLog, ReadTailLog,
\* ClearCurLogFile and ClearAllLogFile return exactly what that sink returns
\* and leave every other sink and its files unchanged; with a
\* standard-stream or discarding sink at index 0 they fail and change
\* nothing, whatever the later sinks hold.
C16_PrimaryOnly ==
    Len(loggers) > 0 =>
        /\ last.op = "CompositeReadLog" =>
             /\ [data |-> last.data, err |-> last.err] =
                    SinkReadLog(PrimarySink, last.preDisk,
                                last.offset, last.length)
             /\ sinks = last.preSinks /\ disk = last.preDisk
        /\ last.op = "CompositeReadTailLog" =>
             /\ [data |-> last.data, newOffset |-> last.newOffset,
                 eof |-> last.eof, err |-> last.err] =
                    SinkReadTailLog(PrimarySink, last.preDisk,
                                    last.offset, last.length)
             /\ sinks = last.preSinks /\ disk = last.preDisk
        /\ last.op = "CompositeClearCur" =>
             /\ [sink |-> sinks[loggers[1]], disk |-> disk,
                 err |-> last.err] = SinkClearCur(PrimarySink, last.preDisk)
             /\ OthersUntouched
        /\ last.op = "CompositeClearAll" =>
             /\ \E failAt \in 0..1 :
                  [sink |-> sinks[loggers[1]], disk |-> disk,
                   err |-> last.err] =
                      SinkClearAll(PrimarySink, last.preDisk, failAt)
             /\ OthersUntouched
        /\ (last.op \in {"CompositeReadLog", "CompositeReadTailLog",
                         "CompositeClearCur", "CompositeClearAll"}
              /\ PrimarySink.kind # "file") =>
             /\ last.err \in {"NO_FILE", "No log"}
             /\ last.data = <<>>
             /\ sinks = last.preSinks /\ disk = last.preDisk

\* a read through a dispatcher whose primary is a standard-stream sink
\* fails while the file sink behind it holds data
C16_Witness ==
    /\ last.op = "CompositeReadLog"
    /\ Len(loggers) = 2
    /\ sinks[loggers[1]].kind = "std"
    /\ sinks[loggers[2]].kind = "file"
    /\ disk[sinks[loggers[2]].name][0].data # <<>>
    /\ last.length >= 0
    /\ last.err = "NO_FILE"
    /\ last.data = <<>>

\* the sequence ls without the element at position k
Without(ls, k) == SubSeq(ls, 1, k - 1) \o SubSeq(ls, k + 1, Len(ls))

\* the last call was a RemoveLogger that took the primary away and left
\* another sink behind it
PrimaryRemoved ==
    /\ last.op = "RemoveLogger"
    /\ Len(last.preLoggers) >= 2
    /\ last.target = last.preLoggers[1]

\* C17: AddLogger appends the sink at the end of the sequence; RemoveLogger
\* removes the first occurrence of its argument and keeps the others in
\* order, and leaves the sequence of which the sink is no member as it is;
\* after the primary was removed, the sink that followed it is at index 0
\* and the next Write, ReadLog or ClearCurLogFile returns that sink's result.
C17_Membership ==
    [][/\ last'.op = "AddLogger" =>
            /\ loggers' = loggers \o <<last'.target>>
            /\ sinks' = sinks /\ disk' = disk
       /\ last'.op = "RemoveLogger" =>
            /\ sinks' = sinks /\ disk' = disk
            /\ (\A k \in 1..Len(loggers) : loggers[k] # last'.target) =>
                   loggers' = loggers
            /\ \A k \in 1..Len(loggers) :
                   (/\ loggers[k] = last'.target
                    /\ \A j \in 1..(k - 1) : loggers[j] # last'.target) =>
                       loggers' = Without(loggers, k)
       /\ PrimaryRemoved =>
            /\ loggers[1] = last.preLoggers[2]
            /\ last'.op = "CompositeWrite" =>
                 LET r == SinkWrite(sinks[last.preLoggers[2]], disk,
                                    last'.p, "ok")
                 IN  last'.n = r.n /\ last'.err = r.err
            /\ last'.op = "CompositeReadLog" =>
                 [data |-> last'.data, err |-> last'.err] =
                     SinkReadLog(sinks[last.preLoggers[2]], disk,
                                 last'.offset, last'.length)
            /\ last'.op = "CompositeClearCur" =>
                 last'.err =
                     SinkClearCur(sinks[last.preLoggers[2]], disk).err]_vars

\* the primary was removed from a sequence of three in which it occurred
\* twice: its second occurrence stays, behind the sink that is now primary
C17_Witness ==
    /\ PrimaryRemoved
    /\ Len(last.preLoggers) = 3
    /\ last.preLoggers[3] = last.target
    /\ last.preLoggers[2] # last.target
    /\ loggers = <<last.preLoggers[2], last.target>>

(***************************************************************************)
(* Claims about the standard-stream and the discarding sink, checked under *)
(* SpecC, where the sink of the first entry holds the caller's observer.   *)
(***************************************************************************)
\* C18: a standard-stream sink returns the stream's result and notifies its
\* observer with the bytes of a Write exactly when the stream's write
\* failed; a discarding sink returns the full length and no error and
\* notifies its observer with the bytes on every Write.
C18_SimpleSinks ==
    last.op = "CompositeWrite" =>
        /\ \A i \in 1..Len(loggers) :
             /\ sinks[loggers[i]].kind = "std" =>
                  /\ last.delivered[i].n =
                         (IF last.delivered[i].io = "ok" THEN Len(last.p)
                          ELSE 0)
                  /\ last.delivered[i].err =
                         (IF last.delivered[i].io = "ok" THEN "nil"
                          ELSE "EIO")
             /\ sinks[loggers[i]].kind = "null" =>
                  /\ last.delivered[i].n = Len(last.p)
                  /\ last.delivered[i].err = "nil"
        /\ sinks[loggers[1]].kind = "std" =>
             last.emitted =
                 IF last.delivered[1].io = "ok" THEN <<>>
                 ELSE <<[from |-> loggers[1], data |-> last.p]>>
        /\ sinks[loggers[1]].kind = "null" =>
             last.emitted = <<[from |-> loggers[1], data |-> last.p]>>

\* a standard-stream sink whose stream turned the bytes down notified its
\* observer with them
C18_Witness ==
    /\ last.op = "CompositeWrite"
    /\ sinks[loggers[1]].kind = "std"
    /\ last.delivered[1].io = "fail"
    /\ last.p # <<>>
    /\ last.err = "EIO"
    /\ last.emitted = <<[from |-> loggers[1], data |-> last.p]>>

(***************************************************************************)
(* Closing.  Specification SpecK: a dispatcher built by NewLogger from two *)
(* destinations, written and closed.                                       *)
(***************************************************************************)
\* a mutant of FileCloseIO: the handle is kept
FileCloseIOKeep(s, io) ==
    IF s.file THEN [sink |-> s, err |-> IF io = "ok" THEN "nil" ELSE "EIO"]
    ELSE [sink |-> s, err |-> "nil"]

\* FileLogger.Close with the outcome io of l.file.Close()
FileCloseIO(s, io) ==
    IF s.file
    THEN [sink |-> [s EXCEPT !.file = FALSE],
          err |-> IF io = "ok" THEN "nil" ELSE "EIO"]
    ELSE [sink |-> s, err |-> "nil"]

\* Logger.Close of the sink s: FileLogger.Close, or NullLogger.Close, which
\* StdLogger inherits
SinkClose(s, io) ==
    IF s.kind = "file" THEN FileCloseIO(s, io)
    ELSE [sink |-> s, err |-> "nil"]

\* the loop of CompositeLogger.Close from position i on
RECURSIVE CloseLoop(_, _, _, _, _)
CloseLoop(ls, i, ss, ios, acc) ==
    IF i > Len(ls)
    THEN [sinks |-> ss, err |-> acc.err, delivered |-> acc.delivered]
    ELSE LET id == ls[i]
             r == SinkClose(ss[id], ios[i])
         IN  CloseLoop(ls, i + 1, [ss EXCEPT ![id] = r.sink], ios,
                 [err |-> IF IsPrimary(i) THEN r.err ELSE acc.err,
                  delivered |->
                      Append(acc.delivered,
                             [id |-> id, io |-> ios[i],
                              open |-> ss[id].file, err |-> r.err])])

\* CompositeLogger.Close
CompositeCloseResult(ls, ss, ios) ==
    CloseLoop(ls, 1, ss, ios, [err |-> "nil", delivered |-> <<>>])

\* only the close of an open file handle does I/O that can fail
CompositeClose ==
    \E ios \in [1..Len(loggers) -> IOChoice] :
      LET r == CompositeCloseResult(loggers, sinks, ios)
      IN  /\ \A i \in 1..Len(loggers) :
                ios[i] = "fail" =>
                    /\ sinks[loggers[i]].kind = "file"
                    /\ sinks[loggers[i]].file
          /\ sinks' = r.sinks
          /\ last' = [NoCall EXCEPT !.op = "CompositeClose",
                        !.err = r.err, !.delivered = r.delivered,
                        !.preSinks = sinks, !.preDisk = disk,
                        !.preLoggers = loggers]
          /\ UNCHANGED <<disk, loggers, okSoFar, conc>>

NextK == FanWrite \/ CompositeClose

SpecK == InitD /\ [][NextK]_vars

\* C19: the dispatcher's Close calls Close on every sink of the sequence,
\* whatever the outcome of the closes before it, and returns exactly the
\* error of the primary's Close; a file sink's Close releases the handle,
\* and a further Close on any sink succeeds, keeps the sink as it is and
\* touches no file.
C19_CloseAll ==
    last.op = "CompositeClose" =>
        /\ Len(last.delivered) = Len(loggers)
        /\ \A i \in 1..Len(loggers) :
             /\ last.delivered[i].id = loggers[i]
             /\ sinks[loggers[i]] =
                    [last.preSinks[loggers[i]] EXCEPT !.file = FALSE]
             /\ \A io \in IOChoice :
                    SinkClose(sinks[loggers[i]], io) =
                        [sink |-> sinks[loggers[i]], err |-> "nil"]
        /\ last.err =
               IF /\ last.preSinks[loggers[1]].kind = "file"
                  /\ last.preSinks[loggers[1]].file
                  /\ last.delivered[1].io = "fail"
               THEN "EIO" ELSE "nil"
        /\ disk = last.preDisk

\* the close of the primary file failed, the file sink behind it was
\* closed all the same, and the call returned the primary's error
C19_Witness ==
    /\ last.op = "CompositeClose"
    /\ Len(loggers) = 2
    /\ last.preSinks[loggers[1]].file /\ last.preSinks[loggers[2]].file
    /\ last.delivered[1].err = "EIO"
    /\ last.delivered[2].err = "nil"
    /\ ~sinks[loggers[1]].file /\ ~sinks[loggers[2]].file
    /\ last.err = "EIO"

(***************************************************************************)
(* Specification SpecL: concurrent callers on one file sink that holds a   *)
(* real mutex, called directly or through a dispatcher over that sink.     *)
(* A call goes through the positions                                       *)
(*   "start"  issued; a dispatcher's Write or Close takes cl.lock next     *)
(*   "sink"   at the entry of the FileLogger method                        *)
(*   "in"     past l.locker.Lock() (Close has no such statement)           *)
(*   "mid"    past its first access of l.file or of the files              *)
(*   "out"    past its last access, before the deferred unlocks            *)
(* The state change of a method is one step, taken at its first or at its  *)
(* last access, so that a call running beside it sees either order.        *)
(***************************************************************************)
FileOps ==
    {"Write", "Close", "ReadLog", "ReadTailLog", "ClearCurLogFile",
     "ClearAllLogFile"}

\* a mutant of TakesClLock: Write does not take cl.lock
TakesClLockNoWrite(op, via) ==
    /\ via = "dispatcher"
    /\ op \in {"Close", "SetPid", "AddLogger", "RemoveLogger"}

\* the dispatcher methods that take cl.lock
TakesClLock(op, via) ==
    /\ via = "dispatcher"
    /\ op \in {"Write", "Close", "SetPid", "AddLogger", "RemoveLogger"}

\* a mutant of TakesFileLock: the reads take no lock
TakesFileLockWrites(op) == op \notin {"Close", "ReadLog", "ReadTailLog"}

\* a mutant of TakesFileLock: Close takes the lock as well
TakesFileLockAll(op) == TRUE

\* the FileLogger methods that take l.locker
TakesFileLock(op) == op # "Close"

\* the FileLogger method op on the sink s and its files
FileCall(op, s, fs) ==
    IF op = "Write"
    THEN LET r == FileWrite(s, fs, Iota(1), "ok")
         IN  [sink |-> r.sink, files |-> r.files, err |-> r.err]
    ELSE IF op = "Close"
    THEN LET r == FileCloseIO(s, "ok")
         IN  [sink |-> r.sink, files |-> fs, err |-> r.err]
    ELSE IF op = "ReadLog"
    THEN [sink |-> s, files |-> fs, err |-> FileReadLog(s, fs, 0, 0).err]
    ELSE IF op = "ReadTailLog"
    THEN [sink |-> s, files |-> fs,
          err |-> FileReadTailLog(s, fs, 0, 1).err]
    ELSE IF op = "ClearCurLogFile" THEN FileClearCur(s, fs)
    ELSE FileClearAll(s, fs, 0)

InitL ==
    /\ LET o == NewFileLogger("a.log", 1, 1, "real", "real", NoFiles)
       IN  /\ sinks = [i \in SinkIds |-> IF i = 1 THEN o.sink ELSE NoSink]
           /\ disk = [q \in Paths |->
                        IF q = "a.log" THEN o.files ELSE NoFiles]
    /\ loggers = <<1>>
    /\ last = NoCall
    /\ okSoFar = TRUE
    /\ Quiet

\* a caller issues a call
Begin(c) ==
    \E op \in FileOps, via \in {"direct", "dispatcher"} :
      /\ calls[c].pc = "idle"
      /\ calls' = [calls EXCEPT ![c] =
                     [Idle EXCEPT !.op = op, !.via = via,
                                  !.pc = IF TakesClLock(op, via) THEN "start"
                                         ELSE "sink"]]
      /\ UNCHANGED <<sinks, disk, loggers, last, okSoFar, fileLock, clLock>>

\* cl.lock.Lock() of CompositeLogger.Write and CompositeLogger.Close
LockDispatcher(c) ==
    /\ calls[c].pc = "start"
    /\ clLock = 0
    /\ clLock' = c
    /\ calls' = [calls EXCEPT ![c].pc = "sink"]
    /\ UNCHANGED <<sinks, disk, loggers, last, okSoFar, fileLock>>

\* l.locker.Lock() of the FileLogger methods that have it
LockFile(c) ==
    /\ calls[c].pc = "sink"
    /\ TakesFileLock(calls[c].op)
    /\ fileLock = 0
    /\ fileLock' = c
    /\ calls' = [calls EXCEPT ![c].pc = "in"]
    /\ UNCHANGED <<sinks, disk, loggers, last, okSoFar, clLock>>

\* FileLogger.Close goes on without a lock
EnterClose(c) ==
    /\ calls[c].pc = "sink"
    /\ ~TakesFileLock(calls[c].op)
    /\ calls' = [calls EXCEPT ![c].pc = "in"]
    /\ UNCHANGED <<sinks, disk, loggers, last, okSoFar, fileLock, clLock>>

\* the state change of the call of c
Effect(c) ==
    LET s == sinks[1]
        r == FileCall(calls[c].op, s, disk[s.name])
    IN  /\ sinks' = [sinks EXCEPT ![1] = r.sink]
        /\ disk' = [disk EXCEPT ![s.name] = r.files]

\* the first access; the state change is made here or at the last access
FirstAccess(c) ==
    /\ calls[c].pc = "in"
    /\ \/ /\ Effect(c)
          /\ calls' = [calls EXCEPT ![c].pc = "mid", ![c].changed = TRUE]
       \/ /\ calls' = [calls EXCEPT ![c].pc = "mid"]
          /\ UNCHANGED <<sinks, disk>>
    /\ UNCHANGED <<loggers, last, okSoFar, fileLock, clLock>>

\* the last access
LastAccess(c) ==
    /\ calls[c].pc = "mid"
    /\ IF calls[c].changed THEN UNCHANGED <<sinks, disk>>
       ELSE Effect(c)
    /\ calls' = [calls EXCEPT ![c].pc = "out"]
    /\ UNCHANGED <<loggers, last, okSoFar, fileLock, clLock>>

\* the deferred unlocks and the return
Return(c) ==
    /\ calls[c].pc = "out"
    /\ calls' = [calls EXCEPT ![c] = Idle]
    /\ fileLock' = IF fileLock = c THEN 0 ELSE fileLock
    /\ clLock' = IF clLock = c THEN 0 ELSE clLock
    /\ UNCHANGED <<sinks, disk, loggers, last, okSoFar>>

NextL ==
    \E c \in Procs :
        \/ Begin(c)
        \/ LockDispatcher(c)
        \/ LockFile(c)
        \/ EnterClose(c)
        \/ FirstAccess(c)
        \/ LastAccess(c)
        \/ Return(c)

SpecL == InitL /\ [][NextL]_vars

\* the caller c is between the first and the last access of its call
InSection(c) == calls[c].pc = "mid"

\* C20: every operation of the file sink holds the sink's lock from its
\* first access of the handle or the files until its last, and no two
\* operations of concurrent callers, direct or through the dispatcher, are
\* between their first and last access at the same time.
C20_LockDiscipline ==
    /\ \A c \in Procs : InSection(c) => fileLock = c
    /\ \A c, d \in Procs : (InSection(c) /\ InSection(d)) => c = d

(***************************************************************************)
(* Specification SpecA: Writes that rotate, beside ReadLog and ReadTailLog *)
(* calls, on one file sink that holds a real mutex.  Every access of the   *)
(* disk is a step of its own.  A Write goes through                        *)
(*   "sink"     at the entry of the method                                 *)
(*   "in"       past l.locker.Lock()                                       *)
(*   "rotate"   past l.file.Write and the size test, rotation decided      *)
(*   "closed"   past l.Close()                                             *)
(*   "renamed"  past l.backupFiles(): the active file is renamed away      *)
(*   "out"      past l.openFile(true), or past the size test when the      *)
(*              Write does not rotate                                      *)
(* and a read through "sink", "in", "opened" (past os.Open), "sized"       *)
(* (past f.Stat) and "out" (past f.ReadAt).  A payload is one byte that    *)
(* no Write before it wrote, so that the origin of every byte read is      *)
(* known.                                                                  *)
(***************************************************************************)
\* the total number of bytes the Writes of SpecA write
MaxBytes == 3

ReadOps == {"ReadLog", "ReadTailLog"}

\* the arguments of the reads of SpecA: all of the file, its last byte, its
\* first byte, and from the second byte on
AtomArgs(op) ==
    IF op = "ReadLog" THEN {<<0, 0>>, <<-1, 0>>}
    ELSE {<<0, 1>>, <<1, MaxWrite>>}

\* the content of the file a descriptor refers to; a file that lost its
\* name keeps its content
FdData(fd, fs) == IF fd.idx >= 0 THEN fs[fd.idx].data ELSE fd.data

\* a descriptor after os.Rename(src, dest): it follows its file to the new
\* name, and the file that dest named before has no name any more
FdRenamed(fd, fs, src, dest) ==
    IF ~fd.open \/ ~fs[src].exists THEN fd
    ELSE IF fd.idx = src THEN [fd EXCEPT !.idx = dest]
    ELSE IF fd.idx = dest THEN [fd EXCEPT !.idx = -1, !.data = fs[dest].data]
    ELSE fd

\* a descriptor after the loop of FileLogger.backupFiles from index i down
RECURSIVE FdShifted(_, _, _)
FdShifted(fd, fs, i) ==
    IF i <= 0 THEN fd
    ELSE FdShifted(FdRenamed(fd, fs, i, i + 1),
                   IF fs[i].exists THEN Rename(fs, i, i + 1) ELSE fs, i - 1)

\* a descriptor after FileLogger.backupFiles
FdBackedUp(fd, s, fs) ==
    FdRenamed(FdShifted(fd, fs, ShiftStart(s.backups)),
              ShiftFrom(fs, ShiftStart(s.backups)), 0, 1)

\* FileLogger.ReadLog from the size test on: the file holds c and its stat
\* returned fileLen
ReadLogRest(c, fileLen, offset, length) ==
    IF offset < 0
    THEN LET o1 == Wrap(fileLen + offset)
             o2 == IF o1 < 0 THEN 0 ELSE o1
         IN  ReadBuf(c, o2, LenToEnd(fileLen, o2))
    ELSE IF length = 0
    THEN IF offset > fileLen THEN [data |-> <<>>, err |-> "nil"]
         ELSE ReadBuf(c, offset, LenToEnd(fileLen, offset))
    ELSE IF offset >= fileLen THEN [data |-> <<>>, err |-> "nil"]
         ELSE ReadBuf(c, offset, Clamp(fileLen, offset, length))

\* FileLogger.ReadTailLog from the end-of-file test on
ReadTailLogRest(c, fileLen, offset, length) ==
    IF TailPastEnd(offset, fileLen)
    THEN [data |-> <<>>, newOffset |-> TailEndOffset(offset, fileLen),
          eof |-> TRUE, err |-> "nil"]
    ELSE
      LET len == Clamp(fileLen, offset, length)
      IN  IF len < 0 \/ len > MaxAlloc
          THEN [data |-> <<>>, newOffset |-> offset, eof |-> FALSE,
                err |-> "panic"]
          ELSE
            LET r == ReadAt(c, len, offset)
            IN  IF r.err # "nil"
                THEN [data |-> <<>>, newOffset |-> offset,
                      eof |-> FALSE, err |-> r.err]
                ELSE [data |-> r.data,
                      newOffset |-> Wrap(offset + Len(r.data)),
                      eof |-> FALSE, err |-> "nil"]

\* the result of the read op as one record
AsResult(op, r) ==
    IF op = "ReadLog" THEN [NoResult EXCEPT !.data = r.data, !.err = r.err]
    ELSE r

\* the read op made in one piece on the active file f
ReadWhole(op, s, f, offset, length) ==
    LET fs == [NoFiles EXCEPT ![0] = f]
    IN  AsResult(op, IF op = "ReadLog" THEN FileReadLog(s, fs, offset, length)
                     ELSE FileReadTailLog(s, fs, offset, length))

\* a call of the caller c is past its first and before its last change of
\* the sink's files
Writing(c) == calls[c].pc \in {"rotate", "closed", "renamed"}

\* the read calls that are running note the active file f, which a Write
\* has just left behind
Noted(cl, f) ==
    [d \in Procs |->
       IF cl[d].op \in ReadOps THEN [cl[d] EXCEPT !.cands = @ \cup {f}]
       ELSE cl[d]]

InitA ==
    /\ LET o == NewFileLogger("a.log", MaxThreshold, 1, "real", "real",
                              NoFiles)
       IN  /\ sinks = [i \in SinkIds |-> IF i = 1 THEN o.sink ELSE NoSink]
           /\ disk = [q \in Paths |->
                        IF q = "a.log" THEN o.files ELSE NoFiles]
    /\ loggers = <<1>>
    /\ last = NoCall
    /\ okSoFar = TRUE
    /\ Quiet

\* a caller issues a Write of one new byte
BeginWrite(c) ==
    /\ calls[c].pc = "idle"
    /\ Len(last.written) < MaxBytes
    /\ LET p == <<Len(last.written) + 1>>
       IN  /\ calls' = [calls EXCEPT ![c] =
                          [Idle EXCEPT !.op = "Write", !.via = "direct",
                                       !.pc = "sink", !.p = p]]
           /\ last' = [last EXCEPT !.written = @ \o p]
    /\ UNCHANGED <<sinks, disk, loggers, okSoFar, fileLock, clLock>>

\* a caller issues a read; the sign checks of the arguments come first
BeginRead(c) ==
    \E op \in ReadOps :
      \E a \in AtomArgs(op) :
        /\ calls[c].pc = "idle"
        /\ calls' = [calls EXCEPT ![c] =
                       [Idle EXCEPT
                          !.op = op, !.via = "direct", !.pc = "sink",
                          !.offset = a[1], !.length = a[2],
                          !.cands = IF \E d \in Procs : Writing(d) THEN {}
                                    ELSE {disk["a.log"][0]}]]
        /\ UNCHANGED <<sinks, disk, loggers, last, okSoFar, fileLock, clLock>>

\* l.locker.Lock() of Write, ReadLog and ReadTailLog
Acquire(c) ==
    /\ calls[c].pc = "sink"
    /\ IF TakesFileLock(calls[c].op)
       THEN fileLock = 0 /\ fileLock' = c
       ELSE UNCHANGED fileLock
    /\ calls' = [calls EXCEPT ![c].pc = "in"]
    /\ UNCHANGED <<sinks, disk, loggers, last, okSoFar, clLock>>

\* l.file.Write(p), the notification, the counter and the size test of Write
AppendStep(c) ==
    /\ calls[c].pc = "in" /\ calls[c].op = "Write"
    /\ LET s == sinks[1]
           fs == disk[s.name]
           r == FileWrite(s, fs, calls[c].p, "ok")
           fs1 == [fs EXCEPT ![0].data = @ \o SubSeq(calls[c].p, 1, r.n)]
       IN  IF r.rotated
           THEN /\ sinks' = [sinks EXCEPT ![1] =
                               [s EXCEPT !.fileSize =
                                  RotateSize(s, s.fileSize + r.n, fs1)]]
                /\ disk' = [disk EXCEPT ![s.name] = fs1]
                /\ calls' = [calls EXCEPT ![c].pc = "rotate"]
           ELSE /\ sinks' = [sinks EXCEPT ![1] = r.sink]
                /\ disk' = [disk EXCEPT ![s.name] = r.files]
                /\ calls' = Noted([calls EXCEPT ![c].pc = "out"], r.files[0])
    /\ UNCHANGED <<loggers, last, okSoFar, fileLock, clLock>>

\* l.Close() of a Write that rotates
CloseStep(c) ==
    /\ calls[c].pc = "rotate"
    /\ sinks' = [sinks EXCEPT ![1] = FileClose(sinks[1]).sink]
    /\ calls' = [calls EXCEPT ![c].pc = "closed"]
    /\ UNCHANGED <<disk, loggers, last, okSoFar, fileLock, clLock>>

\* l.backupFiles() of a Write that rotates
BackupStep(c) ==
    /\ calls[c].pc = "closed"
    /\ LET s == sinks[1]
           fs == disk[s.name]
       IN  /\ disk' = [disk EXCEPT ![s.name] = backupFiles(s, fs)]
           /\ calls' = [d \in Procs |->
                          IF d = c THEN [calls[d] EXCEPT !.pc = "renamed"]
                          ELSE [calls[d] EXCEPT
                                  !.fd = FdBackedUp(calls[d].fd, s, fs)]]
    /\ UNCHANGED <<sinks, loggers, last, okSoFar, fileLock, clLock>>

\* l.openFile(true) of a Write that rotates
ReopenStep(c) ==
    /\ calls[c].pc = "renamed"
    /\ LET s == sinks[1]
           o == openFile(s, disk[s.name], TRUE)
       IN  /\ sinks' = [sinks EXCEPT ![1] = o.sink]
           /\ disk' = [disk EXCEPT ![s.name] = o.files]
           /\ calls' = Noted([calls EXCEPT ![c].pc = "out"], o.files[0])
    /\ UNCHANGED <<loggers, last, okSoFar, fileLock, clLock>>

\* os.Open(l.name) of a read
OpenStep(c) ==
    /\ calls[c].pc = "in" /\ calls[c].op \in ReadOps
    /\ LET fs == disk[sinks[1].name]
       IN  IF fs[0].exists
           THEN calls' = [calls EXCEPT
                            ![c].pc = "opened",
                            ![c].fd = [open |-> TRUE, idx |-> 0,
                                       data |-> <<>>]]
           ELSE calls' = [calls EXCEPT
                            ![c].pc = "out",
                            ![c].res = [NoResult EXCEPT
                                          !.err = IF calls[c].op = "ReadLog"
                                                  THEN "FAILED"
                                                  ELSE "ENOENT"]]
    /\ UNCHANGED <<sinks, disk, loggers, last, okSoFar, fileLock, clLock>>

\* f.Stat() of a read
StatStep(c) ==
    /\ calls[c].pc = "opened"
    /\ calls' = [calls EXCEPT
                   ![c].pc = "sized",
                   ![c].fileLen = Len(FdData(calls[c].fd,
                                             disk[sinks[1].name]))]
    /\ UNCHANGED <<sinks, disk, loggers, last, okSoFar, fileLock, clLock>>

\* the rest of a read: the offset arithmetic, f.ReadAt and the deferred
\* f.Close()
ReadStep(c) ==
    /\ calls[c].pc = "sized"
    /\ LET k == calls[c]
           content == FdData(k.fd, disk[sinks[1].name])
           r == IF k.op = "ReadLog"
                THEN ReadLogRest(content, k.fileLen, k.offset, k.length)
                ELSE ReadTailLogRest(content, k.fileLen, k.offset, k.length)
       IN  calls' = [calls EXCEPT ![c].pc = "out", ![c].fd = NoFd,
                                  ![c].res = AsResult(k.op, r)]
    /\ UNCHANGED <<sinks, disk, loggers, last, okSoFar, fileLock, clLock>>

NextA ==
    \E c \in Procs :
        \/ BeginWrite(c)
        \/ BeginRead(c)
        \/ Acquire(c)
        \/ AppendStep(c)
        \/ CloseStep(c)
        \/ BackupStep(c)
        \/ ReopenStep(c)
        \/ OpenStep(c)
        \/ StatStep(c)
        \/ ReadStep(c)
        \/ Return(c)

SpecA == InitA /\ [][NextA]_vars

\* the read of the caller c has its result
ReadDone(c) == calls[c].op \in ReadOps /\ calls[c].pc = "out"

\* C21: a ReadLog or ReadTailLog that runs beside Writes that rotate
\* returns what the same read, made in one piece, returns on the active
\* file as it stood at one instant between two Writes while the read ran:
\* never a failure for a file renamed away, never bytes of two such files.
C21_ReadAtomic ==
    \A c \in Procs :
      ReadDone(c) =>
        \E f \in calls[c].cands :
          /\ f.exists
          /\ calls[c].res
               = ReadWhole(calls[c].op, sinks[1], f,
                           calls[c].offset, calls[c].length)

\* a read has returned bytes while a Write that rotated the file it began
\* on was waiting or running beside it
C21_Witness ==
    \E c \in Procs :
      /\ ReadDone(c)
      /\ calls[c].res.data # <<>>
      /\ Cardinality(calls[c].cands) > 1
      /\ disk["a.log"][1].exists

(***************************************************************************)
(* Specification SpecW: concurrent callers of Write, AddLogger and         *)
(* RemoveLogger on one dispatcher.  A call goes through                    *)
(*   "start"  issued, cl.lock.Lock() is next                               *)
(*   "sink"   past cl.lock.Lock()                                          *)
(*   "loop"   Write only: in the range loop, i is the next position of     *)
(*            the sequence the range statement evaluated                   *)
(*   "out"    before the deferred cl.lock.Unlock()                         *)
(* Each call of a sink's Write is one step.  last.delivered is the record  *)
(* of these calls in the order they were made.                             *)
(***************************************************************************)
\* the number of Writes the callers of SpecW issue
MaxFan == 2

FanOps == {"Write", "AddLogger", "RemoveLogger"}

\* the sinks handed to AddLogger and RemoveLogger: the second entry
FanTargets == {2}

\* a dispatcher over a file and the discarding device, as NewLogger builds it
InitW ==
    /\ LET o == NewLogger(<<"a.log", "/dev/null">>, "real", MaxFan + 1, 1,
                          "real", [q \in Paths |-> NoFiles])
       IN  /\ sinks = o.sinks
           /\ disk = o.disk
           /\ loggers = o.loggers
    /\ last = NoCall
    /\ okSoFar = TRUE
    /\ Quiet

\* a caller issues a call on the dispatcher; a Write carries one new byte,
\* and AddLogger is called with a sink that is neither a member nor being
\* added by another caller
BeginFan(c) ==
    \E op \in FanOps, id \in FanTargets :
      /\ calls[c].pc = "idle"
      /\ op = "Write" => Len(last.written) < MaxFan
      /\ op = "AddLogger" =>
            /\ Len(loggers) < MaxLoggers
            /\ \A k \in 1..Len(loggers) : loggers[k] # id
            /\ \A d \in Procs : calls[d].op # "AddLogger"
      /\ LET p == IF op = "Write" THEN <<Len(last.written) + 1>> ELSE <<>>
         IN  /\ calls' = [calls EXCEPT ![c] =
                            [Idle EXCEPT
                               !.op = op, !.via = "dispatcher", !.p = p,
                               !.arg = id,
                               !.pc = IF TakesClLock(op, "dispatcher")
                                      THEN "start" ELSE "sink"]]
             /\ last' = [last EXCEPT !.written = @ \o p]
      /\ UNCHANGED <<sinks, disk, loggers, okSoFar, fileLock, clLock>>

\* the range statement of CompositeLogger.Write
RangeStep(c) ==
    /\ calls[c].pc = "sink" /\ calls[c].op = "Write"
    /\ calls' = [calls EXCEPT
                   ![c].snap = loggers, ![c].i = 1,
                   ![c].pc = IF loggers = <<>> THEN "out" ELSE "loop"]
    /\ UNCHANGED <<sinks, disk, loggers, last, okSoFar, fileLock, clLock>>

\* one pass of the loop of CompositeLogger.Write: logger.Write(p)
DeliverStep(c) ==
    /\ calls[c].pc = "loop"
    /\ LET k == calls[c]
           id == k.snap[k.i]
           r == SinkWrite(sinks[id], disk, k.p, "ok")
       IN  /\ sinks' = [sinks EXCEPT ![id] = r.sink]
           /\ disk' = r.disk
           /\ last' = [last EXCEPT
                         !.delivered = Append(@, [p |-> k.p, id |-> id])]
           /\ calls' = [calls EXCEPT
                          ![c].i = k.i + 1,
                          ![c].pc = IF k.i = Len(k.snap) THEN "out"
                                    ELSE "loop"]
    /\ UNCHANGED <<loggers, okSoFar, fileLock, clLock>>

\* the body of AddLogger and of RemoveLogger
MutateStep(c) ==
    /\ calls[c].pc = "sink" /\ calls[c].op \in {"AddLogger", "RemoveLogger"}
    /\ loggers' = IF calls[c].op = "AddLogger"
                  THEN AddLoggerResult(loggers, calls[c].arg)
                  ELSE RemoveLoggerResult(loggers, calls[c].arg)
    /\ calls' = [calls EXCEPT ![c].pc = "out"]
    /\ UNCHANGED <<sinks, disk, last, okSoFar, fileLock, clLock>>

NextW ==
    \E c \in Procs :
        \/ BeginFan(c)
        \/ LockDispatcher(c)
        \/ RangeStep(c)
        \/ DeliverStep(c)
        \/ MutateStep(c)
        \/ Return(c)

SpecW == InitW /\ [][NextW]_vars

\* the sinks that were handed the payload p, in the order of the calls
RECURSIVE Receivers(_, _)
Receivers(d, p) ==
    IF d = <<>> THEN <<>>
    ELSE IF d[1].p = p THEN <<d[1].id>> \o Receivers(Tail(d), p)
    ELSE Receivers(Tail(d), p)

\* the position of the first call that handed the payload p to a sink
FirstCall(d, p) ==
    CHOOSE a \in 1..Len(d) :
      d[a].p = p /\ \A b \in 1..(a - 1) : d[b].p # p

\* C22: the calls of the sinks' Write that one Write of the dispatcher makes
\* are consecutive in the order of all such calls, they go to the members
\* of the sequence as it stood when the loop began, in their order, and the
\* sequence does not change while the loop runs; and every sink receives
\* two writes in the order in which the two Writes began to deliver.
C22_AtomicFanOut ==
    LET d == last.delivered
    IN  /\ \A a, b \in 1..Len(d) :
              (a < b /\ d[a].p = d[b].p) =>
                \A m \in a..b : d[m].p = d[a].p
        /\ \A c \in Procs :
              calls[c].op = "Write" /\ calls[c].pc \in {"loop", "out"} =>
                /\ Receivers(d, calls[c].p)
                     = SubSeq(calls[c].snap, 1, calls[c].i - 1)
                /\ calls[c].pc = "loop" => loggers = calls[c].snap
        /\ \A a, b \in 1..Len(d) :
              (a < b /\ d[a].id = d[b].id /\ d[a].p # d[b].p) =>
                FirstCall(d, d[a].p) < FirstCall(d, d[b].p)

\* two Writes were issued beside a change of the sequence, one went to two
\* sinks and the other to one
C22_Witness ==
    LET d == last.delivered
    IN  /\ Len(d) >= 3
        /\ d[1].p # d[Len(d)].p
        /\ Receivers(d, d[1].p) # Receivers(d, d[Len(d)].p)
        /\ \E c \in Procs :
              /\ calls[c].op = "Write" /\ calls[c].pc = "out"
              /\ Len(calls[c].snap) = 2
        /\ \E c \in Procs : calls[c].op \in {"AddLogger", "RemoveLogger"}

(***************************************************************************)
(* Specification SpecB: one file sink with retention >= 1 on a path that   *)
(* holds no file, written with successful Writes only.  Every payload is   *)
(* made of bytes that no Write before it wrote; last.payloads is the list  *)
(* of the payloads and last.written their concatenation.                   *)
(***************************************************************************)
\* the number of Writes of SpecB
MaxWrites == 4

InitB ==
    /\ \E maxSize \in 0..MaxThreshold, backups \in 1..MaxBackups :
         LET o == NewFileLogger("a.log", maxSize, backups, "real", "real",
                                NoFiles)
         IN  /\ sinks = [i \in SinkIds |-> IF i = 1 THEN o.sink ELSE NoSink]
             /\ disk = [q \in Paths |->
                          IF q = "a.log" THEN o.files ELSE NoFiles]
    /\ loggers = <<1>>
    /\ last = NoCall
    /\ okSoFar = TRUE
    /\ Quiet

\* FileLogger.Write of k new bytes, with no I/O failure
WriteNew ==
    \E k \in 0..MaxWrite :
      LET s == sinks[1]
          fs == disk[s.name]
          p == [i \in 1..k |-> Len(last.written) + i]
          r == FileWrite(s, fs, p, "ok")
      IN  /\ Len(last.payloads) < MaxWrites
          /\ sinks' = [sinks EXCEPT ![1] = r.sink]
          /\ disk' = [disk EXCEPT ![s.name] = r.files]
          /\ last' = [NoCall EXCEPT !.op = "Write", !.target = 1, !.p = p,
                        !.n = r.n, !.err = r.err,
                        !.rotated = r.rotated, !.pre = fs,
                        !.preSize = s.fileSize,
                        !.written = last.written \o p,
                        !.payloads = Append(last.payloads, p)]
          /\ okSoFar' = (okSoFar /\ r.err = "nil")
          /\ UNCHANGED <<loggers, conc>>

NextB == WriteNew

SpecB == InitB /\ [][NextB]_vars

\* the highest index of an existing backup among the files fs, 0 if none
Highest(fs) ==
    IF \E i \in 1..MaxIdx : fs[i].exists
    THEN CHOOSE i \in 1..MaxIdx :
           fs[i].exists /\ \A j \in (i + 1)..MaxIdx : ~fs[j].exists
    ELSE 0

\* the content of backup i, ..., backup 1 and the active file, in this order
RECURSIVE CatFrom(_, _)
CatFrom(fs, i) ==
    IF i < 0 THEN <<>> ELSE fs[i].data \o CatFrom(fs, i - 1)

\* all the bytes on disk, oldest first
Cat(fs) == CatFrom(fs, Highest(fs))

\* the last n elements of the sequence w
Suffix(w, n) == SubSeq(w, Len(w) - n + 1, Len(w))

\* the set of the elements of the sequence w
Bytes(w) == {w[i] : i \in 1..Len(w)}

\* C23: on a fresh path with retention R >= 1 and successful Writes only,
\* the backups 1..K exist without a gap, the content of backup K, ...,
\* backup 1 and the active file is a suffix of all the bytes written, in
\* the order written; a Write takes away from it exactly the content of
\* backup R when it rotates and that backup exists, and nothing otherwise,
\* and adds its payload at the end; and the bytes of one payload are never
\* in two files.
C23_ByteConservation ==
    okSoFar =>
      /\ Post[0].exists
      /\ \A i \in 1..Highest(Post) : Post[i].exists
      /\ Highest(Post) <= Cfg.backups
      /\ Len(Cat(Post)) <= Len(last.written)
      /\ Cat(Post) = Suffix(last.written, Len(Cat(Post)))
      /\ last.op = "Write" =>
           LET before == Cat(last.pre)
               gone == IF last.rotated /\ last.pre[Cfg.backups].exists
                       THEN Len(last.pre[Cfg.backups].data) ELSE 0
           IN  Cat(Post) = SubSeq(before, gone + 1, Len(before)) \o last.p
      /\ \A k \in 1..Len(last.payloads) :
           \A i \in 0..MaxIdx :
             Bytes(last.payloads[k]) \cap Bytes(Post[i].data) # {} =>
               Bytes(last.payloads[k]) \subseteq Bytes(Post[i].data)

\* a rotation with retention 2 has discarded the oldest backup; what is on
\* disk is two payloads of two bytes and more in two backups
C23_Witness ==
    /\ okSoFar /\ last.op = "Write" /\ last.rotated
    /\ Cfg.backups = 2 /\ last.pre[2].exists /\ last.pre[2].data # <<>>
    /\ Len(last.p) >= 2
    /\ Len(Post[2].data) >= 2
    /\ Len(Cat(Post)) < Len(last.written)

(***************************************************************************)
(* The running counter of the file sink, checked under Spec.               *)
(***************************************************************************)
\* C24: as long as every call succeeded, the running counter is at least
\* the true size of the active file between two calls; a clear leaves the
\* counter as it was, a rotation leaves it at the size the file had before
\* it was renamed; a successful Write whose incremented counter is below
\* the threshold keeps the incremented counter and does not rotate, and
\* one whose incremented counter is at or above it sets the counter to the
\* true size; and after a successful Write with threshold > 0 the active
\* file is shorter than the threshold.
C24_CounterBound ==
    okSoFar =>
      /\ Post[0].exists
      /\ Cfg.fileSize >= Len(Post[0].data)
      /\ last.op \in {"ClearCurLogFile", "ClearAllLogFile"} =>
           Cfg.fileSize = last.preSize /\ Post[0].data = <<>>
      /\ last.op = "Write" =>
           /\ IF last.preSize + last.n < Cfg.maxSize
              THEN Cfg.fileSize = last.preSize + last.n /\ ~last.rotated
              ELSE Cfg.fileSize = Len(Appended)
           /\ last.rotated => Cfg.fileSize > Len(Post[0].data)
                                \/ Appended = <<>>
           /\ Cfg.maxSize > 0 => Len(Post[0].data) < Cfg.maxSize

\* a successful Write found the counter above the true size, left after a
\* rotation, and its re-query brought the counter down to the true size of
\* a file that is not empty
C24_Witness ==
    /\ okSoFar /\ last.op = "Write" /\ ~last.rotated
    /\ last.preSize > Len(last.pre[0].data)
    /\ last.pre[1].exists
    /\ last.preSize + last.n >= Cfg.maxSize
    /\ Cfg.maxSize > 0
    /\ Post[0].data # <<>>
    /\ Cfg.fileSize = Len(Post[0].data)

(***************************************************************************)
(* Specification SpecF: followers of one file that nobody writes.  A       *)
(* follower picks a start offset within the file and a length > 0 and      *)
(* calls ReadTailLog again and again, each time with the offset the call   *)
(* before returned.  In calls[c], i is the offset the follower started at, *)
(* offset the one it passes next, res.data all the data it got so far,     *)
(* res.newOffset, res.eof and res.err what the last call returned; pc is   *)
(*   "follow"   between two calls                                          *)
(*   "done"     the last call reported reached-end                         *)
(*   "failed"   the last call returned an error                            *)
(*   "crashed"  the last call panicked                                     *)
(* A follower that is between two calls makes its next call.               *)
(***************************************************************************)
\* the lengths a follower passes: one byte, the longest payload, the
\* largest int64
FollowLengths == {1, MaxWrite, MaxInt64}

InitF ==
    /\ \E k \in 0..MaxInitLen :
         LET o == NewFileLogger("a.log", ReadThreshold, 1, "real", "real",
                                [NoFiles EXCEPT ![0] = File(Iota(k))])
         IN  /\ sinks = [i \in SinkIds |-> IF i = 1 THEN o.sink ELSE NoSink]
             /\ disk = [q \in Paths |->
                          IF q = "a.log" THEN o.files ELSE NoFiles]
    /\ loggers = <<1>>
    /\ last = NoCall
    /\ okSoFar = TRUE
    /\ Quiet

\* a follower starts
BeginFollow(c) ==
    \E s \in 0..Len(disk["a.log"][0].data), length \in FollowLengths :
      /\ calls[c].pc = "idle"
      /\ calls' = [calls EXCEPT ![c] =
                     [Idle EXCEPT !.op = "ReadTailLog", !.via = "direct",
                                  !.pc = "follow", !.i = s, !.offset = s,
                                  !.length = length]]
      /\ UNCHANGED <<sinks, disk, loggers, last, okSoFar, fileLock, clLock>>

\* one call of ReadTailLog by a follower
FollowStep(c) ==
    /\ calls[c].pc = "follow"
    /\ LET k == calls[c]
           r == FileReadTailLog(sinks[1], disk[sinks[1].name],
                                k.offset, k.length)
       IN  calls' = [calls EXCEPT
                       ![c].pc = IF r.err = "panic" THEN "crashed"
                                 ELSE IF r.err # "nil" THEN "failed"
                                 ELSE IF r.eof THEN "done"
                                 ELSE "follow",
                       ![c].offset = r.newOffset,
                       ![c].res = [data |-> k.res.data \o r.data,
                                   newOffset |-> r.newOffset,
                                   eof |-> r.eof, err |-> r.err]]
    /\ UNCHANGED <<sinks, disk, loggers, last, okSoFar, fileLock, clLock>>

NextF == \E c \in Procs : BeginFollow(c) \/ FollowStep(c)

FairF == \A c \in Procs : WF_vars(FollowStep(c))

SpecF == InitF /\ [][NextF]_vars /\ FairF

\* C25: a follower that starts at an offset within the file, with any
\* fixed length > 0 and no write beside it, eventually receives
\* reached-end true.
C25_FollowDrains ==
    \A c \in Procs : (calls[c].pc = "follow") ~> calls[c].res.eof

(***************************************************************************)
(* Specification SpecT: concurrent callers of the methods of two           *)
(* dispatchers.  Dispatcher d is built over the file sink d; the two       *)
(* sinks hold one real mutex, or one each.  Here loggers[d] is the         *)
(* sequence of dispatcher d, clLock[d] the holder of its cl.lock and       *)
(* fileLock[m] the holder of the mutex m.  A call goes through             *)
(*   "start"   issued, cl.lock.Lock() is next                              *)
(*   "sink"    at the entry of a method of the sink snap[i]                *)
(*   "in"      past l.locker.Lock() of that sink                           *)
(*   "out"     before the deferred cl.lock.Unlock()                        *)
(* What a method does under a lock it holds is one step.  The sinks have   *)
(* threshold 0 and retention 0 on a path with an empty file and an empty   *)
(* backup, and a Write hands over no byte: every Write on an open file     *)
(* rotates, and a Write after Close fails.  The first dispatcher gets      *)
(* every call, the second Write and ReadLog; at most two calls run at a    *)
(* time.  A caller that can take a step takes it, and a caller that waits  *)
(* for a mutex which is free again and again gets it.                      *)
(***************************************************************************)
Dispatchers == {1, 2}

Mutexes == {"real", "real2"}

AllOps == FileOps \cup {"SetPid", "AddLogger", "RemoveLogger"}

\* the methods of the dispatcher that go to cl.loggers[0] only
DelegOps == {"ReadLog", "ReadTailLog", "ClearCurLogFile", "ClearAllLogFile"}

\* the calls made on the dispatcher d
OpsOn(d) == IF d = 1 THEN AllOps ELSE {"Write", "ReadLog"}

\* the primary sink of the other dispatcher
Other(d) == IF d = 1 THEN 2 ELSE 1

\* the files of a path that was rotated before: an empty active file and
\* an empty backup .1
Rotated == [NoFiles EXCEPT ![0] = File(<<>>), ![1] = File(<<>>)]

InitT ==
    /\ \E m \in Mutexes :
         LET o1 == NewFileLogger("a.log", 0, 0, "real", "real", Rotated)
             o2 == NewFileLogger("b.log", 0, 0, "real", m, Rotated)
         IN  /\ sinks = [i \in SinkIds |->
                           IF i = 1 THEN o1.sink
                           ELSE IF i = 2 THEN o2.sink ELSE NoSink]
             /\ disk = [q \in Paths |->
                          IF q = "a.log" THEN o1.files ELSE o2.files]
    /\ loggers = [d \in Dispatchers |-> <<d>>]
    /\ last = NoCall
    /\ okSoFar = TRUE
    /\ calls = [c \in Procs |-> Idle]
    /\ fileLock = [m \in Mutexes |-> 0]
    /\ clLock = [d \in Dispatchers |-> 0]

\* a caller issues a call on a dispatcher while at most one other call
\* runs; AddLogger and RemoveLogger are handed the primary sink of the
\* other dispatcher, AddLogger while that sink is neither a member nor
\* being added
BeginT(c) ==
    \E d \in Dispatchers :
      \E op \in OpsOn(d) :
        /\ calls[c].pc = "idle"
        /\ \E e \in Procs :
              \A f \in Procs \ {c, e} : calls[f].pc = "idle"
        /\ op = "AddLogger" =>
              /\ \A k \in 1..Len(loggers[d]) : loggers[d][k] # Other(d)
              /\ \A e \in Procs :
                    ~(calls[e].op = "AddLogger" /\ calls[e].on = d)
        /\ calls' = [calls EXCEPT ![c] =
                       [Idle EXCEPT
                          !.op = op, !.via = "dispatcher", !.on = d,
                          !.arg = IF op \in {"AddLogger", "RemoveLogger"}
                                  THEN Other(d) ELSE 0,
                          !.i = IF op \in DelegOps THEN 1 ELSE 0,
                          !.snap = IF op \in DelegOps
                                   THEN <<Primary(loggers[d])>> ELSE <<>>,
                          !.pc = IF TakesClLock(op, "dispatcher")
                                 THEN "start" ELSE "sink"]]
        /\ UNCHANGED <<sinks, disk, loggers, last, okSoFar, fileLock, clLock>>

\* cl.lock.Lock() and what follows it up to the first call of a sink: the
\* body of AddLogger and of RemoveLogger, the loop of SetPid (SetPid of a
\* file sink does nothing), the range statement of Write and of Close
LockCl(c) ==
    /\ calls[c].pc = "start"
    /\ clLock[calls[c].on] = 0
    /\ clLock' = [clLock EXCEPT ![calls[c].on] = c]
    /\ LET k == calls[c]
           ls == loggers[k.on]
       IN  IF k.op \in {"AddLogger", "RemoveLogger"}
           THEN /\ loggers' = [loggers EXCEPT ![k.on] =
                                 IF k.op = "AddLogger"
                                 THEN AddLoggerResult(ls, k.arg)
                                 ELSE RemoveLoggerResult(ls, k.arg)]
                /\ calls' = [calls EXCEPT ![c].pc = "out"]
           ELSE /\ UNCHANGED loggers
                /\ calls' = [calls EXCEPT
                               ![c].snap = IF k.op = "SetPid" THEN <<>>
                                           ELSE ls,
                               ![c].i = IF k.op = "SetPid" THEN 0 ELSE 1,
                               ![c].pc = IF k.op = "SetPid" \/ ls = <<>>
                                         THEN "out" ELSE "sink"]
    /\ UNCHANGED <<sinks, disk, last, okSoFar, fileLock>>

\* the call of c after the method of the sink snap[i] has returned: the
\* next pass of the loop, the end of the loop, or the return of a method
\* that took no cl.lock
Advanced(c) ==
    IF calls[c].op \in DelegOps THEN [calls EXCEPT ![c] = Idle]
    ELSE IF calls[c].i = Len(calls[c].snap)
    THEN [calls EXCEPT ![c].pc = "out"]
    ELSE [calls EXCEPT ![c].pc = "sink", ![c].i = @ + 1]

\* l.locker.Lock() of the methods of the file sink that have it
AcquireSink(c) ==
    /\ calls[c].pc = "sink"
    /\ TakesFileLock(calls[c].op)
    /\ LET m == sinks[calls[c].snap[calls[c].i]].locker
       IN  /\ fileLock[m] = 0
           /\ fileLock' = [fileLock EXCEPT ![m] = c]
    /\ calls' = [calls EXCEPT ![c].pc = "in"]
    /\ UNCHANGED <<sinks, disk, loggers, last, okSoFar, clLock>>

\* FileLogger.Close called by the dispatcher's Close
CloseSink(c) ==
    /\ calls[c].pc = "sink"
    /\ ~TakesFileLock(calls[c].op)
    /\ LET id == calls[c].snap[calls[c].i]
       IN  sinks' = [sinks EXCEPT ![id] = FileCloseIO(sinks[id], "ok").sink]
    /\ calls' = Advanced(c)
    /\ UNCHANGED <<disk, loggers, last, okSoFar, fileLock, clLock>>

\* a method of the file sink from its first statement after
\* l.locker.Lock() to the deferred l.locker.Unlock(); the l.Close() of a
\* Write that rotates goes through whatever lock Close takes
SinkBody(c) ==
    /\ calls[c].pc = "in"
    /\ LET k == calls[c]
           id == k.snap[k.i]
           s == sinks[id]
           w == FileWrite(s, disk[s.name], <<>>, "ok")
           r == IF k.op = "Write" THEN w ELSE FileCall(k.op, s, disk[s.name])
       IN  /\ (k.op = "Write" /\ w.rotated /\ TakesFileLock("Close")) =>
                 fileLock[s.locker] = 0
           /\ sinks' = [sinks EXCEPT ![id] = r.sink]
           /\ disk' = [disk EXCEPT ![s.name] = r.files]
           /\ fileLock' = [fileLock EXCEPT ![s.locker] = 0]
    /\ calls' = Advanced(c)
    /\ UNCHANGED <<loggers, last, okSoFar, clLock>>

\* the deferred cl.lock.Unlock() and the return
ReturnT(c) ==
    /\ calls[c].pc = "out"
    /\ clLock' = [d \in Dispatchers |-> IF clLock[d] = c THEN 0 ELSE clLock[d]]
    /\ calls' = [calls EXCEPT ![c] = Idle]
    /\ UNCHANGED <<sinks, disk, loggers, last, okSoFar, fileLock>>

NextT ==
    \E c \in Procs :
        \/ BeginT(c)
        \/ LockCl(c)
        \/ AcquireSink(c)
        \/ CloseSink(c)
        \/ SinkBody(c)
        \/ ReturnT(c)

\* the steps of a call that was issued
StepT(c) ==
    LockCl(c) \/ AcquireSink(c) \/ CloseSink(c) \/ SinkBody(c) \/ ReturnT(c)

FairT == \A c \in Procs : SF_vars(StepT(c))

SpecT == InitT /\ [][NextT]_vars /\ FairT

\* the caller c holds a lock
Holds(c) ==
    \/ \E d \in Dispatchers : clLock[d] = c
    \/ \E m \in Mutexes : fileLock[m] = c

\* C26: no caller waits for a dispatcher's lock while it holds a sink's
\* mutex, and every call on a dispatcher returns in the end, with no lock
\* left in the caller's hands.
C26_DeadlockFree ==
    \A c \in Procs :
        /\ [](calls[c].pc = "start" => \A m \in Mutexes : fileLock[m] # c)
        /\ (calls[c].pc # "idle") ~> (calls[c].pc = "idle" /\ ~Holds(c))

\* a Write on one dispatcher is inside a sink that is about to rotate,
\* holding cl.lock and the mutex the two primary sinks share, while a
\* Write on the other dispatcher holds that one's cl.lock and waits for
\* the mutex
C26_Witness ==
    \E c, e \in Procs :
      /\ calls[c].op = "Write" /\ calls[c].pc = "in"
      /\ calls[e].op = "Write" /\ calls[e].pc = "sink"
      /\ calls[c].on # calls[e].on
      /\ clLock[calls[c].on] = c /\ clLock[calls[e].on] = e
      /\ sinks[1].locker = sinks[2].locker
      /\ fileLock[sinks[1].locker] = c
      /\ sinks[calls[c].snap[calls[c].i]].file

====
